---- MODULE Spec2Model ----
(***************************************************************************)
(* Playback controller of the text-to-speech subsystem (class MsEdgeTTS)   *)
(* and the TTS command that drives it (tts.tsx).                           *)
(*                                                                         *)
(* Execution model: Node's event loop.  A "macrotask" (a user action, a    *)
(* timer, an I/O or child-process event) runs only when no promise         *)
(* continuation is runnable; runnable continuations ("microtasks") of      *)
(* different calls may run in any order.  Every action below is one        *)
(* synchronous run of code between two suspension points.                  *)
(*                                                                         *)
(* Identifiers: call c has requestId c, streamId c, EdgeTTS instance c,    *)
(* AbortController c, creation promise c, temp file c and player c; 0 is   *)
(* null / "".  requestIds and streamIds are different generated strings,   *)
(* so a comparison of a streamId with a requestId is never equal.          *)
(***************************************************************************)
EXTENDS Integers, FiniteSets, Sequences, TLC

\* how many speak() calls a run has when only speak() is called and nothing
\* fails; with failures and cancel operations a run has one call less
NCalls == 4

\* how many cancel operations are invoked from outside the speak() calls
MaxCancels == 1

\* timer durations in milliseconds
PollMs     == 50     \* waitForStreamLock: polling interval
LockWaitMs == 500    \* nativeStreamSpeak: bound of the wait for the stream lock
RaceMs     == 250    \* cancelActiveStream: bound of the wait for the creation task
SettleMs   == 50     \* static speak: delay after a forced cancellation
RetryMs    == 100    \* TTS command: delay of the Retry action's timer

\* TTS command: minimal distance of two performTTS starts
DEBOUNCE_DELAY == 500

Calls == 1..NCalls
Ext   == 0
Procs == 0..NCalls
\* the TTS command, as the owner of its timers
UI == NCalls + 1

Modes      == {"native", "boundary"}
\* Texts are sequences of characters; " " stands for any whitespace character.
TextInputs == {<<" ">>, <<"h", "i">>}
\* the texts among them that have something to speak
SpokenTexts == {<<"h", "i">>}

VARIABLES
  \* MsEdgeTTS static fields
  isPlaying, currentPlayingText, currentPlayer, currentTempFile, activeRequestId,
  activeStreamId, activeEdgeTTS, streamLock, streamAbortController,
  streamCreationPromise,
  \* per invocation: position and locals
  pc, casRet, casWait, mode, text, tempFile, abortSignal, err, res,
  \* environment: promises, EdgeTTS connections, player processes, temp files
  promise, closed, players, files,
  \* pending timers <<owner, duration>> in the order they were set
  timers,
  \* TTS command (tts.tsx): React state of the component
  pageState, uiIsPlaying, textToSpeak, hasInitialized, toast,
  \* Date.now() - lastCallTime, capped at DEBOUNCE_DELAY
  lastCallAge,
  \* the initialization effect has not yet got its answer from getSelectedText
  initializing,
  \* number of cancel operations invoked from outside so far
  cancels,
  \* history
  hist,
  \* speakFromFiles: the batch of files being read aloud
  batch,
  \* cleanText applied to a text, and to its own result
  norm,
  \* GeminiAPI.generateContent: one non-streaming request with its retries
  gen,
  \* the signal last sent to each player process
  signal,
  \* the Translate command: React state of the component, and its
  \* performTranslation invocations with their generateContentStream calls
  tr, inv,
  \* generateTranslatePrompt applied to its inputs
  pr,
  \* the module's modelCache, the clock, and the getAvailableModels calls
  mc

vars == <<isPlaying, currentPlayingText, currentPlayer, currentTempFile,
          activeRequestId, activeStreamId, activeEdgeTTS, streamLock,
          streamAbortController, streamCreationPromise,
          pc, casRet, casWait, mode, text, tempFile, abortSignal, err,
          res, promise, closed, players, files, timers, pageState, uiIsPlaying, textToSpeak,
    hasInitialized, toast, lastCallAge, initializing, cancels, hist,
    batch, norm, gen, signal, tr, inv, pr, mc>>

\* The whole state as one record, so that a synchronous run of code is a
\* composition of functions on it.
W ==
  [isPlaying |-> isPlaying, currentPlayingText |-> currentPlayingText,
   currentPlayer |-> currentPlayer, currentTempFile |-> currentTempFile,
   activeRequestId |-> activeRequestId, activeStreamId |-> activeStreamId,
   activeEdgeTTS |-> activeEdgeTTS, streamLock |-> streamLock,
   streamAbortController |-> streamAbortController,
   streamCreationPromise |-> streamCreationPromise,
   pc |-> pc, casRet |-> casRet, casWait |-> casWait, mode |-> mode, text |-> text,
   tempFile |-> tempFile, abortSignal |-> abortSignal,
   err |-> err, res |-> res, promise |-> promise, closed |-> closed,
   players |-> players, files |-> files, timers |-> timers,
   pageState |-> pageState, uiIsPlaying |-> uiIsPlaying,
   textToSpeak |-> textToSpeak, hasInitialized |-> hasInitialized,
   toast |-> toast, lastCallAge |-> lastCallAge,
   initializing |-> initializing,
   cancels |-> cancels,
   hist |-> hist,
   batch |-> batch, norm |-> norm, gen |-> gen,
   signal |-> signal, tr |-> tr, inv |-> inv, pr |-> pr, mc |-> mc]

Commit(w) ==
  /\ isPlaying' = w.isPlaying
  /\ currentPlayingText' = w.currentPlayingText
  /\ currentPlayer' = w.currentPlayer
  /\ currentTempFile' = w.currentTempFile
  /\ activeRequestId' = w.activeRequestId
  /\ activeStreamId' = w.activeStreamId
  /\ activeEdgeTTS' = w.activeEdgeTTS
  /\ streamLock' = w.streamLock
  /\ streamAbortController' = w.streamAbortController
  /\ streamCreationPromise' = w.streamCreationPromise
  /\ pc' = w.pc
  /\ casRet' = w.casRet
  /\ casWait' = w.casWait
  /\ mode' = w.mode
  /\ text' = w.text
  /\ tempFile' = w.tempFile
  /\ abortSignal' = w.abortSignal
  /\ err' = w.err
  /\ res' = w.res
  /\ promise' = w.promise
  /\ closed' = w.closed
  /\ players' = w.players
  /\ files' = w.files
  /\ timers' = w.timers
  /\ pageState' = w.pageState
  /\ uiIsPlaying' = w.uiIsPlaying
  /\ textToSpeak' = w.textToSpeak
  /\ hasInitialized' = w.hasInitialized
  /\ toast' = w.toast
  /\ lastCallAge' = w.lastCallAge
  /\ initializing' = w.initializing
  /\ cancels' = w.cancels
  /\ hist' = w.hist
  /\ batch' = w.batch
  /\ norm' = w.norm
  /\ gen' = w.gen
  /\ signal' = w.signal
  /\ tr' = w.tr
  /\ inv' = w.inv
  /\ pr' = w.pr
  /\ mc' = w.mc

\* History of the calls in flight, for stating the properties; it is dropped
\* when the call's result has been delivered.
\*   sup[a]          a later speak() force-terminated a while a was awaiting
\*                   setMetadata, writing its file or waiting for its player
\*   superseder[b]   b force-terminated an earlier call still in flight
\*   overlapped[a]   another speak() call was in flight during a
\*   extCancelled[a] a cancel operation was invoked from outside during a
HistInit ==
  [sup          |-> [c \in Calls |-> FALSE],
   superseder   |-> [c \in Calls |-> FALSE],
   overlapped   |-> [c \in Calls |-> FALSE],
   extCancelled |-> [c \in Calls |-> FALSE]]

\* no batch of files, no text under normalisation, no request
BatchIdle == [paths |-> <<>>, mode |-> "native", i |-> 0, attempted |-> <<>>,
              failed |-> {}, status |-> "idle"]
NormIdle == [stage |-> "idle", input |-> <<>>, once |-> <<>>, twice |-> <<>>]
GenIdle == [n |-> 0, attempt |-> 0, calls |-> <<>>, waits |-> <<>>,
            lastError |-> "none", notes |-> <<>>, status |-> "idle",
            injected |-> FALSE, opt |-> 0]

\* getAvailableModels: how many calls, and how far the clock runs
MaxModelCalls == 2
MaxTicks == 3

ModelCalls == 1..MaxModelCalls

MODEL_CACHE_TTL == 24 * 60 * 60 * 1000

\* the clock advances in steps of half a TTL
ClockStepMs == 12 * 60 * 60 * 1000

\* the model lists an answer of the endpoint can carry
FetchedLists == {"listA", "listB"}

\* modelCache = null
NoEntry == [models |-> "none", timestamp |-> 0, ttl |-> 0]

McCallIdle == [pc |-> "idle", force |-> FALSE, entry |-> NoEntry, at |-> 0,
               fetched |-> FALSE, why |-> "none", ret |-> "none"]

McInit == [cache |-> NoEntry, now |-> 0,
           call |-> [r \in ModelCalls |-> McCallIdle]]

\* how many performTranslation invocations, and how many chunks a stream has
MaxInvocations == 2
MaxChunks == 2

Invocations == 1..MaxInvocations

\* the Translate command before it is launched; an invocation before it is
\* made (overlapped is history: another invocation has been streaming during
\* this one); no prompt under construction
TrIdle == [stage |-> "unmounted", page |-> "detail", markdown |-> <<>>,
           isLoading |-> TRUE, geminiClient |-> FALSE,
           selectedModel |-> <<>>, initialQuery |-> <<>>,
           TranslateLanguage |-> <<>>, toast |-> "none"]
InvIdle == [pc |-> "idle", text |-> <<>>, target |-> <<>>,
            apiCalls |-> 0, arrived |-> <<>>, callbacks |-> <<>>,
            fullResponse |-> <<>>, notes |-> 0, outcome |-> "none",
            result |-> <<>>, overlapped |-> FALSE]
PrIdle == [stage |-> "idle", text |-> <<>>, targetLanguage |-> <<>>,
           prompt |-> <<>>, firstLanguage |-> <<>>, secondLanguage |-> <<>>,
           finalPrompt |-> <<>>]

(***************************************************************************)
(* Text helpers                                                            *)
(***************************************************************************)
\* A text is a sequence of characters.  The characters outside ASCII are
\* written by their code points, and the scheme prefix of a URL ("http://" or
\* "https://") is one element.
CR == "\r"
LF == "\n"
FullComma == "U+FF0C"
FullStop == "U+3002"
UrlScheme == "http://"
\* the replacement text of a URL, which has no character the later steps touch
UrlWord == "U+7F51U+5740"

\* \s
IsSpace(ch) == ch \in {" ", LF, CR}

RECURSIVE TrimLeft(_)
TrimLeft(t) == IF t # <<>> /\ IsSpace(Head(t)) THEN TrimLeft(Tail(t)) ELSE t

RECURSIVE TrimRight(_)
TrimRight(t) ==
  IF t # <<>> /\ IsSpace(t[Len(t)]) THEN TrimRight(SubSeq(t, 1, Len(t) - 1)) ELSE t

\* String.prototype.trim
Trim(t) == TrimRight(TrimLeft(t))

\* t without its longest prefix of characters of class
RECURSIVE DropRun(_, _)
DropRun(t, class) ==
  IF t # <<>> /\ Head(t) \in class THEN DropRun(Tail(t), class) ELSE t

\* replace(/[class]+/g, rep)
RECURSIVE ReplaceRuns(_, _, _)
ReplaceRuns(t, class, rep) ==
  IF t = <<>> THEN <<>>
  ELSE IF Head(t) \in class
       THEN <<rep>> \o ReplaceRuns(DropRun(t, class), class, rep)
       ELSE <<Head(t)>> \o ReplaceRuns(Tail(t), class, rep)

\* /\r/g -> ""
RemoveCR(t) == SelectSeq(t, LAMBDA ch : ch # CR)

\* t without its longest prefix of characters that are not white space
RECURSIVE DropNonSpace(_)
DropNonSpace(t) ==
  IF t # <<>> /\ ~IsSpace(Head(t)) THEN DropNonSpace(Tail(t)) ELSE t

\* /https?:\/\/[^\s]+/g -> UrlWord: the scheme and at least one character
\* that is not white space
RECURSIVE ReplaceUrls(_)
ReplaceUrls(t) ==
  IF t = <<>> THEN <<>>
  ELSE IF Head(t) = UrlScheme /\ Len(t) >= 2 /\ ~IsSpace(t[2])
       THEN <<UrlWord>> \o ReplaceUrls(DropNonSpace(Tail(t)))
       ELSE <<Head(t)>> \o ReplaceUrls(Tail(t))

\* /\n+/g -> FullStop
NewlinesToStops(t) == ReplaceRuns(t, {LF}, FullStop)

\* /\s+/g -> " "
CollapseSpaces(t) == ReplaceRuns(t, {" ", LF, CR}, " ")

\* the two replacements of repeated punctuation
CollapseCommas(t) == ReplaceRuns(t, {FullComma}, FullComma)
CollapseStops(t) == ReplaceRuns(t, {FullStop}, FullStop)

cleanText(t) ==
  Trim(CollapseStops(CollapseCommas(CollapseSpaces(
         NewlinesToStops(ReplaceUrls(RemoveCR(t)))))))

(***************************************************************************)
(* Scheduling                                                              *)
(***************************************************************************)
Settled(w, q) == q # 0 /\ w.promise[q] \in {"resolved", "rejected"}

\* p has a runnable continuation: a promise continuation, or the error event
\* of a failed spawn, which Node emits on the next tick
Ready(w, p) ==
  \/ w.pc[p] \in {"cas_ret", "write_aborted", "speak_ret", "speak_catch", "returned",
                  "rt_ret", "rt_catch"}
  \/ w.pc[p] = "cas_race" /\ Settled(w, w.casWait[p])
  \/ p \in Calls /\ w.pc[p] \in {"play", "b_play", "rt_play"} /\ w.players[p] = "failed"

\* a macrotask runs only when the microtask queue is empty
NoReady == \A p \in Procs : ~Ready(W, p)

\* Timers.  Real time is not modelled; what is kept of it is that a timer
\* cannot fire before one that was set earlier for at most the same duration.
SetTimer(w, p, d) == [w EXCEPT !.timers = Append(@, <<p, d>>)]

ClearTimer(w, p, d) ==
  [w EXCEPT !.timers = SelectSeq(@, LAMBDA e : e # <<p, d>>)]

\* the oldest timer <<p, d>> has fired
FireTimer(w, p, d) ==
  LET i == CHOOSE i \in 1..Len(w.timers) :
             /\ w.timers[i] = <<p, d>>
             /\ \A j \in 1..(i - 1) : w.timers[j] # <<p, d>>
  IN  [w EXCEPT !.timers = SubSeq(@, 1, i - 1) \o SubSeq(@, i + 1, Len(@))]

Due(w, p, d) ==
  \E i \in 1..Len(w.timers) :
    /\ w.timers[i] = <<p, d>>
    /\ \A j \in 1..(i - 1) : w.timers[j][2] > d

\* Continuations waiting on the same promise run in the order they were
\* registered.  Every caller of cancelActiveStream that raced a creation
\* promise keeps its race timer's entry until it is resumed, so the entries
\* give that order.
TimerPos(w, p, d) ==
  IF \E i \in 1..Len(w.timers) : w.timers[i] = <<p, d>>
  THEN CHOOSE i \in 1..Len(w.timers) : w.timers[i] = <<p, d>>
  ELSE 0

RacedBefore(w, q, p) ==
  /\ TimerPos(w, q, RaceMs) # 0
  /\ TimerPos(w, p, RaceMs) # 0
  /\ TimerPos(w, q, RaceMs) < TimerPos(w, p, RaceMs)

InFlight(w, c) == w.pc[c] \notin {"idle", "done"}

\* the stages of a call's pipeline in which it waits for the synthesis
\* connection, for its file, or for its player
PipelineStages == {"setMetadata", "write", "play", "b_setMetadata", "b_write", "b_play"}

(***************************************************************************)
(* MsEdgeTTS: cancellation                                                 *)
(***************************************************************************)
\* the signal ChildProcess.kill() sends when it is given none
DefaultSignal == "SIGTERM"

\* ChildProcess.kill(sig): the process dies; its close event follows
KillPlayer(w, pl, sig) ==
  [w EXCEPT !.players[pl] = IF @ = "alive" THEN "killed" ELSE @,
            !.signal[pl] = IF w.players[pl] = "alive" THEN sig ELSE @]

cleanupTempFile(w, f) == [w EXCEPT !.files = @ \ {f}]

cancelCurrentPlayback(w) ==
  LET w1 == [w EXCEPT !.activeRequestId = 0]
      w2 == IF w1.currentPlayer # 0
            THEN [KillPlayer(w1, w1.currentPlayer, "SIGKILL") EXCEPT !.currentPlayer = 0]
            ELSE w1
      w3 == IF w2.currentTempFile # 0
            THEN [cleanupTempFile(w2, w2.currentTempFile) EXCEPT !.currentTempFile = 0]
            ELSE w2
  IN  [w3 EXCEPT !.isPlaying = FALSE, !.currentPlayingText = <<>>]

\* AbortController.abort(): the listener a writing call registered on this
\* controller's signal destroys its write stream and rejects its write promise
AbortStream(w, ctrl) ==
  LET hit(a) == a \in Calls /\ w.pc[a] = "write" /\ w.abortSignal[a] = ctrl
  IN  [w EXCEPT !.pc = [p \in Procs |-> IF hit(p) THEN "write_aborted" ELSE w.pc[p]]]

\* steps 5 and finally of cancelActiveStream, then the return to the caller
cancelActiveStreamFinish(w, p) ==
  [w EXCEPT !.streamCreationPromise = 0, !.activeStreamId = 0,
          !.streamLock = FALSE, !.pc[p] = "cas_ret", !.casWait[p] = 0]

\* a cancelActiveStream that awaits the creation promise alone, without the
\* 250 ms timer
cancelActiveStreamUnbounded(w, p, ret) ==
  LET w0 == [w EXCEPT !.casRet[p] = ret]
  IN
  IF w0.activeStreamId = 0 /\ ~w0.isPlaying
  THEN [w0 EXCEPT !.pc[p] = "cas_ret"]
  ELSE
    LET w1 == IF w0.streamAbortController # 0
              THEN [AbortStream(w0, w0.streamAbortController)
                      EXCEPT !.streamAbortController = 0]
              ELSE w0
        w2 == IF w1.activeEdgeTTS # 0
              THEN [w1 EXCEPT !.closed[w1.activeEdgeTTS] = TRUE, !.activeEdgeTTS = 0]
              ELSE w1
        w3 == IF w2.isPlaying \/ w2.currentPlayer # 0
              THEN cancelCurrentPlayback(w2)
              ELSE w2
    IN  IF w3.streamCreationPromise # 0
        THEN [w3 EXCEPT !.pc[p] = "cas_race",
                        !.casWait[p] = w3.streamCreationPromise]
        ELSE cancelActiveStreamFinish(w3, p)

\* cancelActiveStream called by p, up to its first suspension point; ret names
\* the caller's continuation
cancelActiveStream(w, p, ret) ==
  LET w0 == [w EXCEPT !.casRet[p] = ret]
  IN
  IF w0.activeStreamId = 0 /\ ~w0.isPlaying
  THEN [w0 EXCEPT !.pc[p] = "cas_ret"]
  ELSE
    LET w1 == IF w0.streamAbortController # 0
              THEN [AbortStream(w0, w0.streamAbortController)
                      EXCEPT !.streamAbortController = 0]
              ELSE w0
        w2 == IF w1.activeEdgeTTS # 0
              THEN [w1 EXCEPT !.closed[w1.activeEdgeTTS] = TRUE, !.activeEdgeTTS = 0]
              ELSE w1
        w3 == IF w2.isPlaying \/ w2.currentPlayer # 0
              THEN cancelCurrentPlayback(w2)
              ELSE w2
    IN  IF w3.streamCreationPromise # 0
        THEN SetTimer([w3 EXCEPT !.pc[p] = "cas_race",
                                 !.casWait[p] = w3.streamCreationPromise], p, RaceMs)
        ELSE cancelActiveStreamFinish(w3, p)

(***************************************************************************)
(* MsEdgeTTS: playback pipeline                                            *)
(***************************************************************************)
\* playAudioFile up to the spawn; ok: whether afplay could be spawned
playAudioFile(w, c, ok) ==
  [w EXCEPT !.isPlaying = TRUE,
            !.players[c] = IF ok THEN "alive" ELSE "failed",
            !.currentPlayer = c,
            !.currentTempFile = w.tempFile[c]]

\* handlers that reset the playing state without checking the current player
playerHandlerUnchecked(w, c) ==
  [w EXCEPT !.isPlaying = FALSE, !.currentPlayer = 0, !.currentTempFile = 0]

\* the close and error handlers of playAudioFile
playerHandler(w, c) ==
  IF w.currentPlayer = c
  THEN [w EXCEPT !.isPlaying = FALSE, !.currentPlayer = 0, !.currentTempFile = 0]
  ELSE w

\* the finally block of nativeStreamSpeak
nativeFinally(w, c) ==
  LET w1 == IF w.tempFile[c] # 0 THEN cleanupTempFile(w, w.tempFile[c]) ELSE w
      w2 == IF w1.activeStreamId = c
            THEN [w1 EXCEPT !.activeStreamId = 0, !.activeEdgeTTS = 0,
                            !.streamAbortController = 0, !.streamCreationPromise = 0]
            ELSE w1
  IN  IF w2.streamLock THEN [w2 EXCEPT !.streamLock = FALSE] ELSE w2

\* nativeStreamSpeak leaves: its creation promise (if created) settles, its
\* catch rethrows, its finally runs, and the static speak is resumed
nativeExit(w, c, e) ==
  LET w1 == [w EXCEPT !.promise[c] = IF @ = "pending"
                                     THEN (IF e = "none" THEN "resolved" ELSE "rejected")
                                     ELSE @]
      w2 == nativeFinally(w1, c)
  IN  [w2 EXCEPT !.pc[c] = IF e = "none" THEN "speak_ret" ELSE "speak_catch",
                 !.err[c] = e]

\* nativeStreamSpeak step 5 onwards, up to the await of setMetadata
setActive(w, c) ==
  LET w1 == [w EXCEPT !.activeStreamId = c]
  IN  IF cleanText(w1.text[c]) = <<>>
      THEN nativeExit(w1, c, "empty")
      ELSE [w1 EXCEPT !.activeEdgeTTS = c, !.streamAbortController = c,
                      !.pc[c] = "setMetadata"]

\* nativeStreamSpeak steps 3 and 4
acquire(w, c) ==
  LET w1 == [w EXCEPT !.streamLock = TRUE]
  IN  IF w1.activeStreamId # 0
      THEN cancelActiveStream(w1, c, "setActive")
      ELSE setActive(w1, c)

\* nativeStreamSpeak from its start to its first suspension point
nativeStreamSpeak(w, c) ==
  IF w.streamLock
  THEN SetTimer(SetTimer([w EXCEPT !.pc[c] = "lock_wait"], c, LockWaitMs), c, PollMs)
  ELSE acquire(w, c)

\* boundaryStreamSpeak from its start to its first suspension point
boundaryStreamSpeak(w, c) ==
  IF cleanText(w.text[c]) = <<>>
  THEN [w EXCEPT !.pc[c] = "speak_catch", !.err[c] = "empty"]
  ELSE [w EXCEPT !.pc[c] = "b_setMetadata"]

\* static speak: the try block up to the await of tts.speak
claim(w, c) ==
  LET w2 == [w EXCEPT !.activeRequestId = c,
                      !.currentPlayingText = Trim(w.text[c])]
  IN  IF w2.mode[c] = "boundary"
      THEN boundaryStreamSpeak(w2, c)
      ELSE nativeStreamSpeak(w2, c)

\* the call's result has been delivered: its locals are gone
retire(w, c) ==
  [w EXCEPT !.pc[c] = "done", !.err[c] = "none", !.res[c] = "none",
            !.tempFile[c] = 0, !.abortSignal[c] = 0, !.text[c] = <<>>,
            !.mode[c] = "native", !.closed[c] = FALSE, !.players[c] = "none",
            !.signal[c] = "none",
            !.hist.sup[c] = FALSE, !.hist.superseder[c] = FALSE,
            !.hist.overlapped[c] = FALSE, !.hist.extCancelled[c] = FALSE]

\* a finally block that releases the token without checking who owns it
speakFinallyUnchecked(w, c) ==
  [w EXCEPT !.activeRequestId = 0, !.currentPlayingText = <<>>,
            !.pc[c] = "returned"]

\* static speak: the finally block; the result is then delivered to the caller
speakFinally(w, c) ==
  IF w.activeRequestId = c
  THEN [w EXCEPT !.activeRequestId = 0, !.currentPlayingText = <<>>,
                 !.pc[c] = "returned"]
  ELSE [w EXCEPT !.pc[c] = "returned"]

\* a classification that does not know the abort listener's 'Stream aborted'
isCancellationErrorNoAbort(e) == e \in {"connect"}

\* the message patterns the catch block of the static speak treats as a
\* cancellation: "Stream aborted", "aborted", "Connect Error", and an error
\* without message ("Unknown error")
isCancellationError(e) == e \in {"aborted", "connect"}

\* a catch block that rethrows what is not a cancellation, as the catch of
\* nativeStreamSpeak does
speakCatchResultRethrow(w, c) ==
  LET wasCancelledByNewerRequest == w.activeRequestId # c
  IN  IF wasCancelledByNewerRequest \/ isCancellationError(w.err[c])
      THEN "cancelled"
      ELSE "rejected"

\* static speak: the catch block's classification
speakCatchResult(w, c) ==
  LET wasCancelledByNewerRequest == w.activeRequestId # c
  IN  IF wasCancelledByNewerRequest \/ isCancellationError(w.err[c])
      THEN "cancelled"
      ELSE "failed"

\* static speak from its start to its first suspension point
speakStart(w, c) ==
  LET needsCancelPlayer == w.currentPlayer # 0
      needsCancelStream == w.activeStreamId # 0
      isOwnedByOther    == w.activeRequestId # 0 /\ w.activeRequestId # c
      force == needsCancelPlayer \/ needsCancelStream \/ isOwnedByOther
      busy == \E a \in Calls : a # c /\ InFlight(w, a)
      hit(a) == /\ a # c /\ force /\ w.pc[a] \in PipelineStages
                /\ w.activeStreamId = a \/ w.currentPlayer = a
      w0 == [w EXCEPT
               !.hist.sup = [a \in Calls |-> @[a] \/ hit(a)],
               !.hist.superseder[c] = \E a \in Calls : hit(a),
               !.hist.overlapped = [a \in Calls |->
                  IF a = c THEN busy ELSE @[a] \/ InFlight(w, a)]]
      w1 == IF needsCancelPlayer THEN cancelCurrentPlayback(w0) ELSE w0
  IN  IF force
      THEN IF needsCancelStream \/ isOwnedByOther
           THEN cancelActiveStream(w1, c, "delay")
           ELSE SetTimer([w1 EXCEPT !.pc[c] = "delay50"], c, SettleMs)
      ELSE claim(w0, c)

\* a cancel operation invoked from outside any speak() call
NoteCancel(w) ==
  [w EXCEPT !.cancels = @ + 1,
            !.hist.extCancelled = [a \in Calls |-> @[a] \/ InFlight(w, a)]]

InitShared ==
  /\ isPlaying = FALSE
  /\ currentPlayingText = <<>>
  /\ currentPlayer = 0
  /\ currentTempFile = 0
  /\ activeRequestId = 0
  /\ activeStreamId = 0
  /\ activeEdgeTTS = 0
  /\ streamLock = FALSE
  /\ streamAbortController = 0
  /\ streamCreationPromise = 0
  /\ pc = [p \in Procs |-> "idle"]
  /\ casRet = [p \in Procs |-> "none"]
  /\ casWait = [p \in Procs |-> 0]
  /\ mode = [c \in Calls |-> "native"]
  /\ text = [c \in Calls |-> <<>>]
  /\ tempFile = [c \in Calls |-> 0]
  /\ abortSignal = [c \in Calls |-> 0]
  /\ err = [c \in Calls |-> "none"]
  /\ res = [c \in Calls |-> "none"]
  /\ promise = [c \in Calls |-> "none"]
  /\ closed = [c \in Calls |-> FALSE]
  /\ players = [c \in Calls |-> "none"]
  /\ files = {}
  /\ timers = <<>>
  /\ pageState = "form"
  /\ uiIsPlaying = FALSE
  /\ textToSpeak = <<>>
  /\ hasInitialized = TRUE
  /\ toast = "none"
  /\ lastCallAge = DEBOUNCE_DELAY
  /\ initializing = TRUE
  /\ cancels = 0
  /\ hist = HistInit
  /\ batch = BatchIdle
  /\ gen = GenIdle
  /\ signal = [c \in Calls |-> "none"]
  /\ tr = TrIdle
  /\ inv = [j \in Invocations |-> InvIdle]
  /\ mc = McInit

Init == InitShared /\ norm = NormIdle /\ pr = PrIdle

(***************************************************************************)
(* Actions: MsEdgeTTS                                                      *)
(***************************************************************************)
\* A caller invokes MsEdgeTTS.speak(text, {enableBoundary}); calls are
\* numbered in the order they start.
Speak(c, texts) ==
  /\ pc[c] = "idle"
  /\ c = 1 \/ pc[c - 1] # "idle"
  /\ NoReady
  /\ \E m \in Modes, t \in texts :
       Commit(speakStart([W EXCEPT !.mode[c] = m, !.text[c] = t], c))

\* the continuation of whoever awaited cancelActiveStream()
CasReturn(p) ==
  /\ pc[p] = "cas_ret"
  /\ \A q \in Procs \ {p} :
       /\ ~(pc[q] = "cas_race" /\ Settled(W, casWait[q]))
       /\ ~(pc[q] = "cas_ret" /\ RacedBefore(W, q, p))
  /\ LET w == [ClearTimer(W, p, RaceMs) EXCEPT !.casRet[p] = "none"]
     IN  CASE casRet[p] = "delay"     ->
                Commit(SetTimer([w EXCEPT !.pc[p] = "delay50"], p, SettleMs))
           [] casRet[p] = "acquire"   -> Commit(acquire(w, p))
           [] casRet[p] = "setActive" -> Commit(setActive(w, p))
           [] OTHER                   -> Commit([w EXCEPT !.pc[p] = "idle"])

\* cancelActiveStream step 4: the raced creation promise has settled
CasRaceSettled(p) ==
  /\ pc[p] = "cas_race"
  /\ Settled(W, casWait[p])
  /\ \A q \in Procs \ {p} :
       ~(pc[q] = "cas_race" /\ casWait[q] = casWait[p] /\ RacedBefore(W, q, p))
  /\ Commit(cancelActiveStreamFinish(W, p))

\* cancelActiveStream step 4: the 250 ms timer wins the race
CasRaceTimeout(p) ==
  /\ pc[p] = "cas_race"
  /\ NoReady
  /\ Due(W, p, RaceMs)
  /\ Commit(cancelActiveStreamFinish(W, p))

\* static speak: the 50 ms settle delay has passed; claim ownership
DelayDone(c) ==
  /\ pc[c] = "delay50"
  /\ NoReady
  /\ Due(W, c, SettleMs)
  /\ Commit(claim(ClearTimer(W, c, SettleMs), c))

\* waitForStreamLock(500): a 50 ms timer of the polling loop fires; timedOut
\* is whether 500 ms have passed since the wait began
LockWaitWake(c) ==
  /\ pc[c] = "lock_wait"
  /\ NoReady
  /\ Due(W, c, PollMs)
  /\ \E timedOut \in (IF Due(W, c, LockWaitMs) THEN BOOLEAN ELSE {FALSE}) :
       LET w == ClearTimer(W, c, PollMs)
           u == ClearTimer(w, c, LockWaitMs)
       IN  IF streamLock /\ ~timedOut
           THEN Commit(SetTimer(w, c, PollMs))
           ELSE IF streamLock
                THEN Commit(cancelActiveStream(u, c, "acquire"))
                ELSE Commit(acquire(u, c))

\* tts.setMetadata resolves; native mode goes on to stream creation (step 7)
SetMetadataResolve(c) ==
  /\ pc[c] = "setMetadata"
  /\ NoReady
  /\ IF activeStreamId # c
     THEN Commit(nativeExit(W, c, "none"))
     ELSE Commit([W EXCEPT !.tempFile[c] = c,
                           !.files = @ \cup {c},
                           !.abortSignal[c] = streamAbortController,
                           !.streamCreationPromise = c,
                           !.promise[c] = "pending",
                           !.pc[c] = "write"])

\* tts.setMetadata rejects: with the library's "Connect Error" when the
\* connection was closed or failed, or with another error when it failed;
\* faulty: whether a connection fails without having been closed
SetMetadataReject(c, faulty) ==
  /\ pc[c] \in {"setMetadata", "b_setMetadata"}
  /\ NoReady
  /\ closed[c] \/ faulty
  /\ \E e \in (IF closed[c] THEN {"connect"} ELSE {"connect", "io"}) :
       IF mode[c] = "native"
       THEN Commit(nativeExit(W, c, e))
       ELSE Commit([W EXCEPT !.pc[c] = "speak_catch", !.err[c] = e])

\* the write stream finishes; checkpoint, then playAudioFile; spawns: the
\* possible outcomes of spawning afplay
WriteFinish(c, spawns) ==
  /\ pc[c] = "write"
  /\ NoReady
  /\ IF activeStreamId # c
     THEN Commit(nativeExit(W, c, "none"))
     ELSE \E ok \in spawns :
            Commit([playAudioFile(W, c, ok) EXCEPT !.pc[c] = "play"])

\* the write stream or the audio stream reports an error
WriteError(c) ==
  /\ pc[c] \in {"write", "b_write"}
  /\ NoReady
  /\ IF mode[c] = "native"
     THEN Commit(nativeExit(W, c, "io"))
     ELSE Commit([W EXCEPT !.pc[c] = "speak_catch", !.err[c] = "io"])

\* the write promise was rejected by the abort listener ('Stream aborted')
WriteAborted(c) ==
  /\ pc[c] = "write_aborted"
  /\ Commit(nativeExit(W, c, "aborted"))

\* the player process has exited (by itself or killed): its close event
PlayerClose(c) ==
  /\ pc[c] \in {"play", "b_play"}
  /\ players[c] \in {"alive", "killed"}
  /\ NoReady
  /\ LET w == playerHandler(
                [W EXCEPT !.players[c] = IF @ = "killed" THEN "reaped" ELSE "closed"], c)
     IN  IF mode[c] = "native"
         THEN Commit(nativeExit(w, c, "none"))
         ELSE Commit([cleanupTempFile(w, tempFile[c]) EXCEPT !.pc[c] = "speak_ret"])

\* afplay could not be spawned: the player's error event
PlayerError(c) ==
  /\ pc[c] \in {"play", "b_play"}
  /\ players[c] = "failed"
  /\ LET w == playerHandler([W EXCEPT !.players[c] = "unspawned"], c)
     IN  IF mode[c] = "native"
         THEN Commit(nativeExit(w, c, "io"))
         ELSE Commit([cleanupTempFile(w, tempFile[c])
                        EXCEPT !.pc[c] = "speak_catch", !.err[c] = "io"])

\* boundary mode: setMetadata and toStream done; the temp file is being written
BSetMetadataResolve(c) ==
  /\ pc[c] = "b_setMetadata"
  /\ NoReady
  /\ Commit([W EXCEPT !.tempFile[c] = c, !.files = @ \cup {c}, !.pc[c] = "b_write"])

\* boundary mode: the write stream finishes; playAudioFile
BWriteFinish(c, spawns) ==
  /\ pc[c] = "b_write"
  /\ NoReady
  /\ \E ok \in spawns :
       Commit([playAudioFile(W, c, ok) EXCEPT !.pc[c] = "b_play"])

\* static speak: tts.speak resolved
SpeakReturn(c) ==
  /\ pc[c] = "speak_ret"
  /\ Commit(speakFinally([W EXCEPT !.res[c] = "success"], c))

\* static speak: tts.speak rejected
SpeakCatch(c) ==
  /\ pc[c] = "speak_catch"
  /\ Commit(speakFinally([W EXCEPT !.res[c] = speakCatchResult(W, c)], c))

\* the caller of MsEdgeTTS.speak receives the result
Resume(c) ==
  /\ pc[c] = "returned"
  /\ Commit(retire(W, c))

\* MsEdgeTTS.cancelCurrentPlayback() called from outside
CancelCurrentPlayback ==
  /\ cancels < MaxCancels
  /\ NoReady
  /\ Commit(cancelCurrentPlayback(NoteCancel(W)))

\* MsEdgeTTS.cancelActiveStream() called from outside
CancelActiveStream ==
  /\ cancels < MaxCancels
  /\ pc[Ext] = "idle"
  /\ NoReady
  /\ Commit(cancelActiveStream(NoteCancel(W), Ext, "idle"))

\* the steps of a native-mode call that the environment's faults do not enable
NativePipeline ==
  \/ \E p \in Procs : CasReturn(p)
  \/ \E p \in Procs : CasRaceSettled(p)
  \/ \E p \in Procs : CasRaceTimeout(p)
  \/ \E c \in Calls : DelayDone(c)
  \/ \E c \in Calls : LockWaitWake(c)
  \/ \E c \in Calls : SetMetadataResolve(c)
  \/ \E c \in Calls : WriteAborted(c)
  \/ \E c \in Calls : PlayerClose(c)
  \/ \E c \in Calls : SpeakReturn(c)
  \/ \E c \in Calls : SpeakCatch(c)

\* an environment in which connections, writes and spawns may fail
Faulty ==
  \/ \E c \in Calls : SetMetadataReject(c, TRUE)
  \/ \E c \in Calls : WriteFinish(c, BOOLEAN)
  \/ \E c \in Calls : WriteError(c)
  \/ \E c \in Calls : PlayerError(c)

\* an environment in which nothing fails by itself
Reliable ==
  \/ \E c \in Calls : SetMetadataReject(c, FALSE)
  \/ \E c \in Calls : WriteFinish(c, {TRUE})

\* Any caller, any environment; the last request id is left unused.
Next ==
  \/ \E c \in Calls \ {NCalls} : Speak(c, TextInputs)
  \/ \E c \in Calls : Resume(c)
  \/ CancelCurrentPlayback
  \/ CancelActiveStream
  \/ NativePipeline
  \/ Faulty
  \/ \E c \in Calls : BSetMetadataResolve(c)
  \/ \E c \in Calls : BWriteFinish(c, BOOLEAN)

Spec == Init /\ [][Next]_vars

\* Callers that only call speak() with text to speak, in a reliable
\* environment.
NextCalm ==
  \/ \E c \in Calls : Speak(c, SpokenTexts)
  \/ \E c \in Calls : Resume(c)
  \/ NativePipeline
  \/ Reliable
  \/ \E c \in Calls : BSetMetadataResolve(c)
  \/ \E c \in Calls : BWriteFinish(c, {TRUE})

SpecCalm == Init /\ [][NextCalm]_vars

(***************************************************************************)
(* The TTS command (tts.tsx)                                               *)
(*                                                                         *)
(* Every handler runs with the component's latest state, except the        *)
(* initialization effect, whose closure is that of the first render.  The  *)
(* command calls MsEdgeTTS.speak in native mode only.                      *)
(***************************************************************************)
\* the request id the next call of MsEdgeTTS.speak gets
FreshCall(w) ==
  CHOOSE c \in Calls : w.pc[c] = "idle" /\ \A d \in 1..(c - 1) : w.pc[d] # "idle"

\* performTTS(t) up to its first suspension point; age is
\* Date.now() - lastCallTime with the lastCallTime of the caller's closure
performTTS(w, t, age) ==
  IF Trim(t) = <<>>
  THEN [w EXCEPT !.pageState = "error", !.uiIsPlaying = FALSE]
  ELSE IF age < DEBOUNCE_DELAY
  THEN w
  ELSE LET c == FreshCall(w)
       IN      [SetTimer(ClearTimer(w, UI, DEBOUNCE_DELAY), UI, DEBOUNCE_DELAY)
                  EXCEPT !.lastCallAge = 0,
                         !.uiIsPlaying = TRUE,
                         !.pageState = "playing",
                         !.toast = "playing",
                         !.text[c] = t,
                         !.pc[c] = "toast"]

\* the model has a request id left for this invocation, if it needs one
CanInvoke(t, age) ==
  \/ Trim(t) = <<>>
  \/ age < DEBOUNCE_DELAY
  \/ \E c \in Calls \ {NCalls} : pc[c] = "idle"

\* the initialization effect gets the selected text (or, with a command
\* argument, runs at once); its closure has lastCallTime = 0, textToSpeak = ""
Initialize ==
  /\ initializing
  /\ NoReady
  /\ \E sel \in TextInputs \cup {<<>>} :
       LET w == [W EXCEPT !.initializing = FALSE]
       IN  IF Trim(sel) # <<>>
           THEN /\ CanInvoke(sel, DEBOUNCE_DELAY)
                /\ Commit(performTTS([w EXCEPT !.textToSpeak = sel,
                                                !.pageState = "loading"],
                                      sel, DEBOUNCE_DELAY))
           ELSE Commit([w EXCEPT !.pageState = "form"])

\* Form page: submit
handleFormSubmit(t) ==
  /\ pageState = "form"
  /\ NoReady
  /\ LET textToPlay == Trim(t)
     IN  IF textToPlay = <<>>
         THEN Commit([W EXCEPT !.toast = "noinput"])
         ELSE /\ CanInvoke(textToPlay, lastCallAge)
              /\ Commit(performTTS([W EXCEPT !.textToSpeak = textToPlay],
                                    textToPlay, lastCallAge))

\* Success page: replay
handleReplay ==
  /\ pageState = "success"
  /\ NoReady
  /\ textToSpeak # <<>> /\ ~uiIsPlaying
  /\ CanInvoke(textToSpeak, lastCallAge)
  /\ Commit(performTTS(W, textToSpeak, lastCallAge))

\* Playing page: cancel
handleCancel ==
  /\ pageState = "playing"
  /\ NoReady
  /\ cancels < MaxCancels
  /\ Commit([cancelCurrentPlayback(NoteCancel(W))
               EXCEPT !.uiIsPlaying = FALSE, !.pageState = "success",
                      !.toast = "stopped"])

\* Success or Error page: back to the form
BackToForm ==
  /\ pageState \in {"success", "error"}
  /\ NoReady
  /\ Commit([W EXCEPT !.pageState = "form"])

\* Error page: retry
Retry ==
  /\ pageState = "error"
  /\ NoReady
  /\ Commit(SetTimer([W EXCEPT !.pageState = "loading", !.hasInitialized = FALSE],
                      UI, RetryMs))

\* the timer of the Retry action fires
RetryTimer ==
  /\ Due(W, UI, RetryMs)
  /\ NoReady
  /\ LET w == FireTimer(W, UI, RetryMs)
     IN  IF ~hasInitialized
         THEN Commit([w EXCEPT !.hasInitialized = TRUE, !.pageState = "loading"])
         ELSE Commit(w)

\* DEBOUNCE_DELAY ms have passed since the time kept in lastCallTime
DebounceElapsed ==
  /\ Due(W, UI, DEBOUNCE_DELAY)
  /\ NoReady
  /\ Commit([ClearTimer(W, UI, DEBOUNCE_DELAY) EXCEPT !.lastCallAge = DEBOUNCE_DELAY])

\* performTTS: the "playing" toast is shown; MsEdgeTTS.speak is called
ToastShown(c) ==
  /\ pc[c] = "toast"
  /\ \A d \in 1..(c - 1) : pc[d] # "toast"
  /\ NoReady
  /\ Commit(speakStart(W, c))

\* performTTS: MsEdgeTTS.speak has returned its result
HandleResult(c) ==
  /\ pc[c] = "returned"
  /\ CASE res[c] = "cancelled" ->
            Commit(retire([W EXCEPT !.uiIsPlaying = FALSE], c))
       [] res[c] = "success" ->
            Commit([W EXCEPT !.pageState = "success", !.toast = "done",
                             !.pc[c] = "ui_done"])
       [] OTHER ->
            Commit([W EXCEPT !.pageState = "error", !.toast = "failed",
                             !.pc[c] = "ui_error"])

\* performTTS: the closing toast is shown; the finally block
PerformFinally(c) ==
  /\ pc[c] \in {"ui_done", "ui_error"}
  /\ NoReady
  /\ Commit(retire([W EXCEPT !.uiIsPlaying = FALSE], c))

NextUI ==
  \/ Initialize
  \/ \E t \in TextInputs : handleFormSubmit(t)
  \/ handleReplay
  \/ handleCancel
  \/ BackToForm
  \/ Retry
  \/ RetryTimer
  \/ DebounceElapsed
  \/ \E c \in Calls : ToastShown(c)
  \/ \E c \in Calls : HandleResult(c)
  \/ \E c \in Calls : PerformFinally(c)
  \/ NativePipeline
  \/ Faulty

SpecUI == Init /\ [][NextUI]_vars

(***************************************************************************)
(* Step predicates used by the properties                                  *)
(***************************************************************************)
\* a later call than a has started
LaterStarted(a) == \E b \in Calls : b > a /\ pc[b] # "idle"

\* b has claimed ownership (passed the try block's first statements)
Claimed(b) ==
  /\ pc[b] \notin {"idle", "delay50"}
  /\ ~(pc[b] \in {"cas_race", "cas_ret"} /\ casRet[b] = "delay")

\* this step is a synchronous run of call a's own code
StepOf(a) == pc'[a] # pc[a] /\ pc'[a] # "write_aborted"

\* in this step a claims ownership
ClaimStep(a) == StepOf(a) /\ activeRequestId' = a /\ activeRequestId # a

\* in this step a spawns its player process, which starts playing
SpawnStep(a) == players[a] = "none" /\ players'[a] = "alive"

\* in this step a performTTS invocation passes the debounce check: it
\* records its start time, sets the playing flag and the Playing page and
\* goes on to call MsEdgeTTS.speak under request id c
PerformStep(c) == pc[c] = "idle" /\ pc'[c] = "toast"

\* the playback of c was cancelled: a later speak() force-terminated it, or
\* its player was killed, its write aborted or its connection closed
EndedByCancel(c) ==
  \/ hist.sup[c]
  \/ players[c] \in {"killed", "reaped"}
  \/ err[c] = "aborted"
  \/ closed[c]

\* a later call than a holds the token it claimed, or is past its claim and
\* still in flight
LaterClaimed(a) == \E b \in Calls : b > a /\ Claimed(b) /\ pc[b] # "done"

\* in this step a terminates a later call's player, stream or connection
TerminateStep(a) ==
  /\ StepOf(a)
  /\ \E b \in Calls :
       /\ b > a
       /\ \/ players[b] = "alive" /\ players'[b] = "killed"
          \/ pc[b] = "write" /\ pc'[b] = "write_aborted"
          \/ ~closed[b] /\ closed'[b]

\* in this step a runs a cleanup phase: the finally block of
\* nativeStreamSpeak or the finally block of the static speak
CleanupStep(a) ==
  \/ /\ pc[a] \in {"setMetadata", "write", "write_aborted", "play"}
     /\ pc'[a] \in {"speak_ret", "speak_catch"}
  \/ pc[a] \in {"speak_ret", "speak_catch"} /\ pc'[a] = "returned"

AlivePlayers == {c \in Calls : players[c] = "alive"}

\* the pipelines that are running towards playback: a native one is the
\* registered active stream, a boundary one is never registered
ActivePipelines ==
  {c \in Calls :
     \/ pc[c] \in {"setMetadata", "write", "play"} /\ activeStreamId = c
     \/ pc[c] \in {"b_setMetadata", "b_write", "b_play"}}

(***************************************************************************)
(* Properties                                                              *)
(***************************************************************************)
\* C1: in every reachable state at most one spawned player process is alive
\* and at most one synthesis pipeline is running as active.
C1_AtMostOnePlayerAndStream ==
  /\ Cardinality(AlivePlayers) <= 1
  /\ Cardinality(ActivePipelines) <= 1

\* C2: a call that a later speak() force-terminated while it was awaiting
\* setMetadata, writing its file or waiting for its player returns
\* {success:false, cancelled:true}.
C2_SupersededReturnsCancelled ==
  \A a \in Calls : pc[a] = "returned" /\ hist.sup[a] => res[a] = "cancelled"

\* C3: an earlier call never terminates the stream or player of a later
\* call, and once a later call has claimed ownership and is still in flight
\* an earlier call neither claims ownership nor starts playing.
C3_EarlierNeverActsAfterLater ==
  [][\A a \in Calls :
       /\ ~TerminateStep(a)
       /\ LaterClaimed(a) => ~ClaimStep(a) /\ ~SpawnStep(a)]_vars

\* C4: when the cleanup of a call runs while another call owns the token,
\* it leaves activeRequestId and the currently-playing text as they are.
C4_CleanupKeepsNewOwner ==
  [][\A a \in Calls :
       CleanupStep(a) /\ activeRequestId \notin {0, a}
         => /\ activeRequestId' = activeRequestId
            /\ currentPlayingText' = currentPlayingText]_vars

\* C4 witness: call a's cleanup has run while a later call b, which had
\* superseded it, owned the token.
C4_Witness ==
  \E a, b \in Calls :
    /\ a < b /\ pc[a] = "returned" /\ hist.sup[a]
    /\ activeRequestId = b /\ currentPlayingText = <<"h", "i">>

\* C5: after a later call has claimed ownership, the cleanup of an earlier
\* call changes none of activeStreamId, activeEdgeTTS, streamAbortController,
\* streamCreationPromise and streamLock.
C5_SupersededCleanupChangesNothing ==
  [][\A a \in Calls :
       CleanupStep(a) /\ (\E b \in Calls : b > a /\ Claimed(b))
         => /\ activeStreamId' = activeStreamId
            /\ activeEdgeTTS' = activeEdgeTTS
            /\ streamAbortController' = streamAbortController
            /\ streamCreationPromise' = streamCreationPromise
            /\ streamLock' = streamLock]_vars

\* C6: a call spawns its player only while it still owns the token and, in
\* native mode, is still the registered stream.
C6_NoSpawnAfterLosingOwnership ==
  [][\A c \in Calls :
       SpawnStep(c) => /\ activeRequestId = c
                       /\ mode[c] = "native" => activeStreamId = c]_vars

\* C7: a performTTS invocation with text that starts less than DEBOUNCE_DELAY
\* ms after the start of the previous invocation that was not dropped is
\* dropped: it does not change the page or the playing flag and does not go
\* on to call MsEdgeTTS.speak.
C7_DebouncedInvocationIsDropped ==
  [][lastCallAge < DEBOUNCE_DELAY => \A c \in Calls : ~PerformStep(c)]_vars

\* C9: the result of a playback that was cancelled never takes performTTS
\* to its error branch, which sets the page to Error and shows the failure
\* toast.
C9_CancelNeverShowsError ==
  \A c \in Calls : EndedByCancel(c) => pc[c] # "ui_error"

\* C9 witness: performTTS has handled the result of a playback whose player
\* the cancel action or a newer request had killed.
C9_Witness ==
  \E c \in Calls : pc[c] = "ui_done" /\ players[c] = "reaped"

\* a's pipeline failed by itself: a synthesis, file or player error that no
\* cancellation caused
FailedByItself(a) == err[a] \in {"connect", "io"} /\ ~closed[a]

Undisturbed(a) == ~hist.overlapped[a] /\ ~hist.extCancelled[a]

\* C8: a call whose pipeline failed while no other call and no cancel
\* operation ran returns {success:false, cancelled:false}; and cancelled:true
\* is returned only by a call that was disturbed.
C8_GenuineFailureIsNotCancelled ==
  \A a \in Calls :
    pc[a] = "returned" /\ Undisturbed(a)
      => /\ FailedByItself(a) => res[a] = "failed"
         /\ res[a] # "cancelled"

\* C10: a call b that superseded an earlier call, after which no later call
\* started and no cancel operation was invoked, and whose own synthesis and
\* playback did not fail, returns success and its player is not killed.
C10_SupersederSucceeds ==
  \A b \in Calls :
    /\ hist.superseder[b] /\ ~LaterStarted(b) /\ ~hist.extCancelled[b]
    /\ ~FailedByItself(b) /\ cleanText(text[b]) # <<>>
    => /\ pc[b] = "returned" => res[b] = "success"
       /\ players[b] \notin {"killed", "reaped"}

\* C11: a speak() call whose text is empty after normalization leaves
\* currentPlayer, currentTempFile, isPlaying and every player process as
\* they are in each of its steps, and returns {success:false,
\* cancelled:false} (with the message of the "文本为空" error).
C11_EmptyTextTouchesNothing ==
  [][\A c \in Calls :
       StepOf(c) /\ pc'[c] # "done" /\ cleanText(text'[c]) = <<>>
         => /\ UNCHANGED <<currentPlayer, currentTempFile, isPlaying, players>>
            /\ pc'[c] = "returned" => res'[c] = "failed"]_vars

\* this step is a call of MsEdgeTTS.cancelCurrentPlayback() from outside the
\* speak() calls
CancelPlaybackStep == cancels' = cancels + 1 /\ casRet'[Ext] = casRet[Ext]

\* C12: cancelCurrentPlayback() called while no player process is running
\* leaves activeRequestId, the currently-playing text, isPlaying,
\* currentPlayer, currentTempFile and the stream fields unchanged, and a
\* second call right after the first changes nothing more.
C12_CancelWithoutPlayerChangesNothing ==
  [][CancelPlaybackStep /\ currentPlayer = 0 /\ AlivePlayers = {}
       => /\ UNCHANGED <<activeRequestId, currentPlayingText, isPlaying,
                         currentPlayer, currentTempFile, activeStreamId,
                         activeEdgeTTS, streamAbortController,
                         streamCreationPromise, streamLock>>
          /\ cancelCurrentPlayback(cancelCurrentPlayback(W))
               = cancelCurrentPlayback(W)]_vars

\* in this step the close or error event of c's player process is handled
PlayerEventStep(c) ==
  /\ players[c] \in {"alive", "killed", "failed"}
  /\ players'[c] \in {"closed", "reaped", "unspawned"}

\* C13: the close or error event of a player process that is not the
\* registered current player changes none of isPlaying, currentPlayer and
\* currentTempFile.
C13_StalePlayerEventKeepsState ==
  [][\A c \in Calls :
       PlayerEventStep(c) /\ currentPlayer # c
         => UNCHANGED <<isPlaying, currentPlayer, currentTempFile>>]_vars

\* C13 witness: the event of a's player has been handled while the player of
\* another call b is the registered one and is playing.
C13_Witness ==
  \E a, b \in Calls :
    /\ a # b /\ players[a] \in {"closed", "reaped"}
    /\ currentPlayer = b /\ players[b] = "alive" /\ isPlaying
    /\ currentTempFile = tempFile[b]

\* in this step an invocation of cancelActiveStream() by p finishes
CasFinishStep(p) == pc[p] # "cas_ret" /\ pc'[p] = "cas_ret"

\* C14: every invocation of cancelActiveStream() finishes with streamLock
\* released and with activeStreamId, the EdgeTTS instance, the abort
\* controller and the creation promise cleared.
C14_CancelActiveStreamClearsAll ==
  [][\A p \in Procs :
       CasFinishStep(p)
         => /\ streamLock' = FALSE
            /\ activeStreamId' = 0
            /\ activeEdgeTTS' = 0
            /\ streamAbortController' = 0
            /\ streamCreationPromise' = 0]_vars

\* in this step b begins its synthesis: it calls tts.setMetadata
SynthStartStep(b) ==
  /\ pc[b] \notin {"setMetadata", "b_setMetadata"}
  /\ pc'[b] \in {"setMetadata", "b_setMetadata"}

\* C15: when a call b begins its synthesis, no earlier call has a player
\* process alive, and no earlier call has a synthesis stream running that was
\* neither aborted nor closed.
C15_CancelIssuedBeforeSynthesis ==
  [][\A b \in Calls :
       SynthStartStep(b)
         => \A a \in Calls :
              a < b => /\ players'[a] # "alive"
                       /\ ~(/\ pc'[a] \in {"setMetadata", "write",
                                           "b_setMetadata", "b_write"}
                            /\ ~closed'[a])]_vars

(***************************************************************************)
(* Progress of the preemption phase                                        *)
(*                                                                         *)
(* Callers that only call speak(), at most NCalls - 1 of them.  The event  *)
(* loop runs every runnable continuation and every timer that is due;      *)
(* nothing is assumed about the environment: a connection, a write or a    *)
(* player process may take forever.                                        *)
(***************************************************************************)
NextLive ==
  \/ \E c \in Calls \ {NCalls} : Speak(c, SpokenTexts)
  \/ \E c \in Calls : Resume(c)
  \/ NativePipeline
  \/ Reliable
  \/ \E c \in Calls : BSetMetadataResolve(c)
  \/ \E c \in Calls : BWriteFinish(c, {TRUE})

\* a runnable continuation of some call runs
Continuation ==
  \E c \in Calls :
    \/ CasReturn(c) \/ CasRaceSettled(c) \/ WriteAborted(c)
    \/ SpeakReturn(c) \/ SpeakCatch(c) \/ Resume(c)

\* a bounded wait of some call ends by its timer: the 250 ms race, the 50 ms
\* delay, or the wait for the stream lock at the first poll after its deadline
TimerExpiry ==
  \E c \in Calls :
    \/ CasRaceTimeout(c) \/ DelayDone(c)
    \/ LockWaitWake(c) /\ pc'[c] # "lock_wait"

\* some continuation can run now
ContinuationReady ==
  \E c \in Calls :
    \/ pc[c] \in {"write_aborted", "speak_ret", "speak_catch", "returned"}
    \/ /\ pc[c] = "cas_ret"
       /\ \A q \in Procs \ {c} :
            /\ ~(pc[q] = "cas_race" /\ Settled(W, casWait[q]))
            /\ ~(pc[q] = "cas_ret" /\ RacedBefore(W, q, c))
    \/ /\ pc[c] = "cas_race" /\ Settled(W, casWait[c])
       /\ \A q \in Procs \ {c} :
            ~(pc[q] = "cas_race" /\ casWait[q] = casWait[c] /\ RacedBefore(W, q, c))

\* some bounded wait can end by its timer now
TimerDue ==
  /\ NoReady
  /\ \E c \in Calls :
       \/ pc[c] = "cas_race" /\ Due(W, c, RaceMs)
       \/ pc[c] = "delay50" /\ Due(W, c, SettleMs)
       \/ /\ pc[c] = "lock_wait" /\ Due(W, c, PollMs)
          /\ ~streamLock \/ Due(W, c, LockWaitMs)

\* a timer of some bounded wait fires, whether the wait ends or polls again
TimerFire ==
  \E c \in Calls : CasRaceTimeout(c) \/ DelayDone(c) \/ LockWaitWake(c)

\* some timer can fire now
TimerFireable ==
  /\ NoReady
  /\ \E c \in Calls :
       \/ pc[c] = "cas_race" /\ Due(W, c, RaceMs)
       \/ pc[c] = "delay50" /\ Due(W, c, SettleMs)
       \/ pc[c] = "lock_wait" /\ Due(W, c, PollMs)

\* The event loop does not stop while a continuation is runnable or a timer
\* can fire: weak fairness of Continuation and of TimerFire.  Time does not
\* stop either: a wait whose deadline can have passed again and again has its
\* deadline passed at some point, however the polls of several waiters
\* interleave (waitForStreamLock compares Date.now() with its start time at
\* every poll): strong fairness of TimerExpiry.  All three are written with
\* the enabling conditions.
EventLoop ==
  /\ []<>(~ContinuationReady) \/ []<><<Continuation>>_vars
  /\ []<>(~TimerFireable) \/ []<><<TimerFire>>_vars
  /\ <>[](~TimerDue) \/ []<><<TimerExpiry>>_vars

SpecLive == Init /\ [][NextLive]_vars /\ EventLoop

\* the stages of speak() before its own pipeline: the forced cancellation
\* and its bounded wait, the settle delay, the wait for the stream lock
PreemptionStages == {"cas_race", "cas_ret", "delay50", "lock_wait"}

\* C16: a call in its preemption phase always gets to the start of its own
\* pipeline, whatever the lock's holder and the superseded creation task do.
C16_PreemptionTerminates ==
  \A c \in Calls \ {NCalls} :
    (pc[c] \in PreemptionStages) ~> (pc[c] \in {"setMetadata", "b_setMetadata"})

\* C16 witness: c owns the token and has started its pipeline while the
\* creation task of a call whose stream was cancelled is still unsettled.
C16_Witness ==
  \E a, c \in Calls :
    /\ a # c /\ pc[c] = "setMetadata"
    /\ activeRequestId = c /\ activeStreamId = c
    /\ closed[a] /\ promise[a] = "pending"

\* C17: when a call has settled, the temp file it created is gone; so once
\* all calls have settled no temp file is left.
C17_NoTempFileAfterSettle ==
  \A c \in Calls : pc[c] \in {"returned", "done"} => c \notin files

(***************************************************************************)
(* cleanText as a function of the text                                     *)
(***************************************************************************)
MaxLen == 3

TextChars == {CR, LF, " ", FullComma, FullStop, UrlScheme, "a"}

Texts == UNION {[1..n -> TextChars] : n \in 0..MaxLen}

InitText ==
  /\ InitShared
  /\ pr = PrIdle
  /\ \E t \in Texts :
       norm = [stage |-> "input", input |-> t, once |-> <<>>, twice |-> <<>>]

\* cleanText(text)
CleanOnce ==
  /\ norm.stage = "input"
  /\ Commit([W EXCEPT !.norm.once = cleanText(norm.input), !.norm.stage = "once"])

\* cleanText of the cleaned text
CleanTwice ==
  /\ norm.stage = "once"
  /\ Commit([W EXCEPT !.norm.twice = cleanText(norm.once), !.norm.stage = "twice"])

NextText ==
  \/ CleanOnce
  \/ CleanTwice

SpecText == InitText /\ [][NextText]_vars

\* C19: cleaning a text that cleanText has already cleaned returns it
\* unchanged.
C19_CleanTextIdempotent == norm.stage = "twice" => norm.twice = norm.once

(***************************************************************************)
(* GeminiAPI.generateContent: the non-streaming request and its retries    *)
(*                                                                         *)
(* The Raycast toasts are taken to be shown (showToast resolves); what the *)
(* Gemini client answers to each request is the environment's choice.      *)
(***************************************************************************)
MaxRetries == 3

DEFAULT_MAX_RETRIES == 3

BackoffMs == 1000

\* what handleError distinguishes in the message of an error
ErrorKinds == {"429", "401", "quota", "overloaded", "other"}

\* the title of the failure toast
handleErrorTitle(e) ==
  CASE e = "429"        -> "rate"
    [] e = "401"        -> "key"
    [] e = "quota"      -> "quota"
    [] e = "overloaded" -> "busy"
    [] OTHER            -> "failed"

backoffFlat(attempt) == BackoffMs

\* the delay before the attempt after a failed one
backoff(attempt) == BackoffMs * attempt

\* generateContent(prompt, {maxRetries}) up to the first await; 0 stands for
\* an absent option
GenerateContent(maxRetries) ==
  /\ gen.status = "idle"
  /\ Commit([W EXCEPT !.gen = [GenIdle EXCEPT
                 !.n = IF maxRetries = 0 THEN DEFAULT_MAX_RETRIES ELSE maxRetries,
                 !.attempt = 1,
                 !.status = "loading"]])

\* the loading toast is up: the request goes out
LoadingToastShown ==
  /\ gen.status = "loading"
  /\ Commit([W EXCEPT !.gen.status = "request"])

\* the client answers: the success toast is shown
ApiResolve ==
  /\ gen.status = "request"
  /\ Commit([W EXCEPT !.gen.calls = Append(@, "ok"),
                      !.gen.status = "success_toast"])

\* return {text, model, timestamp}
SuccessToastShown ==
  /\ gen.status = "success_toast"
  /\ Commit([W EXCEPT !.gen.status = "returned"])

\* the client throws: wait and retry, or leave the loop and handleError
ApiReject(e) ==
  /\ gen.status = "request"
  /\ LET g == [gen EXCEPT !.calls = Append(@, e), !.lastError = e]
     IN  IF gen.attempt < gen.n
         THEN Commit([W EXCEPT !.gen = [g EXCEPT
                         !.waits = Append(@, backoff(gen.attempt)),
                         !.status = "backoff"]])
         ELSE Commit([W EXCEPT !.gen = [g EXCEPT
                         !.attempt = gen.attempt + 1,
                         !.notes = Append(@, handleErrorTitle(e)),
                         !.status = "failure_toast"]])

\* the timer fires: continue with attempt++
BackoffDone ==
  /\ gen.status = "backoff"
  /\ Commit([W EXCEPT !.gen.attempt = @ + 1, !.gen.status = "loading"])

\* throw lastError
FailureToastShown ==
  /\ gen.status = "failure_toast"
  /\ Commit([W EXCEPT !.gen.status = "thrown"])

NextGen ==
  \/ \E maxRetries \in 0..MaxRetries : GenerateContent(maxRetries)
  \/ LoadingToastShown
  \/ ApiResolve
  \/ SuccessToastShown
  \/ \E e \in ErrorKinds : ApiReject(e)
  \/ BackoffDone
  \/ FailureToastShown

SpecGen == Init /\ [][NextGen]_vars

\* C20: with retry count n >= 1 the requests are attempts 1..n in order, only
\* the last one made can have succeeded and then the call returns it; after
\* the k-th failed attempt that is not the last the call waits k * 1000 ms;
\* a failure notification is shown only when all n attempts have failed,
\* once, and then the call throws the error of the n-th attempt.
C20_RetryLoop ==
  LET made == Len(gen.calls) IN
  /\ gen.status # "idle" => gen.n >= 1
  /\ made <= gen.n
  /\ gen.status \in {"loading", "request"} => made = gen.attempt - 1
  /\ \A k \in 1..(made - 1) : gen.calls[k] # "ok"
  /\ Len(gen.waits) = Cardinality({k \in 1..made : gen.calls[k] # "ok" /\ k < gen.n})
  /\ \A k \in 1..Len(gen.waits) : gen.waits[k] = k * BackoffMs
  /\ gen.status = "returned"
       => made >= 1 /\ gen.calls[made] = "ok" /\ gen.notes = <<>>
  /\ gen.notes # <<>>
       => /\ Len(gen.notes) = 1
          /\ made = gen.n
          /\ \A k \in 1..made : gen.calls[k] # "ok"
  /\ gen.status = "thrown"
       => /\ made = gen.n
          /\ \A k \in 1..made : gen.calls[k] # "ok"
          /\ Len(gen.notes) = 1
          /\ gen.lastError = gen.calls[gen.n]

\* three failed attempts with the delays between them, then the notification
\* and the throw
C20_Witness ==
  /\ gen.status = "thrown"
  /\ gen.n = 3
  /\ gen.waits = <<BackoffMs, 2 * BackoffMs>>
  /\ gen.calls = <<"429", "other", "quota">>
  /\ gen.notes = <<"quota">>

(***************************************************************************)
(* speakFromFiles: a list of files read aloud one after the other by one   *)
(* MsEdgeTTS instance.  The i-th file of the list is spoken as call i.     *)
(***************************************************************************)
MaxFiles == 3

\* a path of the list: whether the file exists, whether readFileSync can read
\* it, and what it holds
FileKinds ==
  {[exists |-> FALSE, readable |-> FALSE, content |-> <<>>],
   [exists |-> TRUE,  readable |-> FALSE, content |-> <<>>],
   [exists |-> TRUE,  readable |-> TRUE,  content |-> <<" ", LF>>],
   [exists |-> TRUE,  readable |-> TRUE,  content |-> <<"h", "i", LF>>]}

FileLists == UNION {[1..n -> FileKinds] : n \in 0..MaxFiles}

\* the instance method speak(text, mode, voice)
speak(w, c) ==
  IF w.mode[c] = "boundary" THEN boundaryStreamSpeak(w, c) ELSE nativeStreamSpeak(w, c)

\* speakFromFile up to its call of speak: whether it throws before
speakFromFileThrows(f) == ~f.exists \/ ~f.readable \/ Trim(f.content) = <<>>

fileErrorRethrown(b, i) == [b EXCEPT !.failed = @ \cup {i}, !.status = "rejected"]

\* the catch around speakFromFile in the loop of speakFromFiles
fileErrorCaught(b, i) == [b EXCEPT !.failed = @ \cup {i}]

\* the loop of speakFromFiles from file i up to its next suspension point
RECURSIVE speakFromFilesLoop(_, _)
speakFromFilesLoop(w, i) ==
  IF w.batch.status # "running" THEN w
  ELSE IF i > Len(w.batch.paths) THEN [w EXCEPT !.batch.status = "resolved"]
  ELSE LET f  == w.batch.paths[i]
           w1 == [w EXCEPT !.batch.i = i, !.batch.attempted = Append(@, i)]
       IN  IF speakFromFileThrows(f)
           THEN speakFromFilesLoop([w1 EXCEPT !.batch = fileErrorCaught(@, i)], i + 1)
           ELSE speak([w1 EXCEPT !.mode[i] = w.batch.mode, !.text[i] = f.content], i)

\* tts.speakFromFiles(filePaths, mode)
SpeakFromFiles(filePaths, m) ==
  /\ batch.status = "idle"
  /\ Len(filePaths) <= NCalls
  /\ Commit(speakFromFilesLoop(
       [W EXCEPT !.batch = [BatchIdle EXCEPT !.paths = filePaths, !.mode = m,
                                             !.status = "running"]], 1))

\* speak() of file c has settled: speakFromFile rethrows a rejection, the loop
\* goes on with the next file
FileSettled(c) ==
  /\ batch.status = "running"
  /\ batch.i = c
  /\ pc[c] \in {"speak_ret", "speak_catch"}
  /\ LET w == [W EXCEPT !.pc[c] = "done",
                        !.batch = IF pc[c] = "speak_catch"
                                  THEN fileErrorCaught(@, c) ELSE @]
     IN  Commit(speakFromFilesLoop(w, c + 1))

NextFiles ==
  \/ \E filePaths \in FileLists, m \in Modes : SpeakFromFiles(filePaths, m)
  \/ \E c \in Calls : FileSettled(c)
  \/ \E c \in Calls : SetMetadataResolve(c)
  \/ \E c \in Calls : SetMetadataReject(c, TRUE)
  \/ \E c \in Calls : WriteFinish(c, BOOLEAN)
  \/ \E c \in Calls : WriteError(c)
  \/ \E c \in Calls : PlayerClose(c)
  \/ \E c \in Calls : PlayerError(c)
  \/ \E c \in Calls : BSetMetadataResolve(c)
  \/ \E c \in Calls : BWriteFinish(c, BOOLEAN)
  \/ CancelCurrentPlayback

SpecFiles == Init /\ [][NextFiles]_vars

\* C18: speakFromFiles attempts the files of its list in list order, each one
\* once, whatever fails on the way; it never rejects, and when it has resolved
\* it has attempted every file.
C18_EveryFileAttemptedInOrder ==
  /\ batch.status # "rejected"
  /\ batch.attempted = [k \in 1..Len(batch.attempted) |-> k]
  /\ Len(batch.attempted) <= Len(batch.paths)
  /\ batch.failed \subseteq {batch.attempted[k] : k \in 1..Len(batch.attempted)}
  /\ batch.status = "resolved" => Len(batch.attempted) = Len(batch.paths)

\* a batch that resolved although its first file's synthesis failed and its
\* second file does not exist, the third having been played
C18_Witness ==
  /\ batch.status = "resolved"
  /\ batch.attempted = <<1, 2, 3>>
  /\ batch.failed = {1, 2}
  /\ err[1] \in {"connect", "io"}
  /\ ~batch.paths[2].exists
  /\ players[3] = "closed"

(***************************************************************************)
(* Translate: generateTranslatePrompt as a function of its inputs          *)
(*                                                                         *)
(* A template variable "{{key}}" is one element of a text; the literal     *)
(* parts of the built-in template and of the direct instruction are one    *)
(* element each.                                                           *)
(***************************************************************************)
MaxTextLen == 2

VarFirstLanguage == "{{firstLanguage}}"
VarSecondLanguage == "{{secondLanguage}}"
VarInputText == "{{inputText}}"

\* the built-in template: its literal parts and its variables in their order
DEFAULT_TRANSLATE_PROMPT ==
  <<"<system prompt>", VarFirstLanguage, VarSecondLanguage, "rules",
    VarFirstLanguage, VarSecondLanguage, VarSecondLanguage, VarFirstLanguage,
    VarFirstLanguage, "</system prompt>", VarInputText>>

\* String.prototype.replace with a string as the replacement: in it "$$"
\* stands for "$" and "$&" for the matched text
RECURSIVE GetSubstitution(_, _)
GetSubstitution(replacement, matched) ==
  IF replacement = <<>> THEN <<>>
  ELSE IF Len(replacement) >= 2 /\ replacement[1] = "$" /\ replacement[2] = "$"
       THEN <<"$">> \o GetSubstitution(SubSeq(replacement, 3, Len(replacement)), matched)
  ELSE IF Len(replacement) >= 2 /\ replacement[1] = "$" /\ replacement[2] = "&"
       THEN <<matched>> \o GetSubstitution(SubSeq(replacement, 3, Len(replacement)), matched)
  ELSE <<Head(replacement)>> \o GetSubstitution(Tail(replacement), matched)

\* result.replace(new RegExp("\\{\\{key\\}\\}", "g"), value)
RECURSIVE replaceVariable(_, _, _)
replaceVariable(result, key, value) ==
  IF result = <<>> THEN <<>>
  ELSE IF Head(result) = key
       THEN GetSubstitution(value, key) \o replaceVariable(Tail(result), key, value)
       ELSE <<Head(result)>> \o replaceVariable(Tail(result), key, value)

\* the variables are replaced one after the other, in the order of the object
replaceTemplateVariables(template, firstLanguage, secondLanguage, inputText) ==
  replaceVariable(
    replaceVariable(
      replaceVariable(template, VarFirstLanguage, firstLanguage),
      VarSecondLanguage, secondLanguage),
    VarInputText, inputText)

\* t.includes(ch)
Includes(t, ch) == \E i \in 1..Len(t) : t[i] = ch

\* the direct instruction
directInstruction(txt, targetLanguage) ==
  <<"Translate the following text to">> \o targetLanguage
    \o <<"Return ONLY the translation", "Text to translate:">> \o txt

generateTranslatePrompt(txt, targetLanguage, prompt, firstLanguage, secondLanguage) ==
  IF targetLanguage # <<>>
  THEN directInstruction(txt, targetLanguage)
  ELSE LET templateToUse == IF Trim(prompt) # <<>> THEN Trim(prompt)
                            ELSE DEFAULT_TRANSLATE_PROMPT
           finalPrompt == replaceTemplateVariables(templateToUse, firstLanguage,
                                                   secondLanguage, txt)
       IN  IF Trim(prompt) # <<>> /\ ~Includes(prompt, VarInputText)
           THEN finalPrompt \o <<LF, LF>> \o txt
           ELSE finalPrompt

\* texts to translate, target languages, custom templates, configured languages
PromptTexts ==
  UNION {[1..n -> {"a", "b", "$", "&"}] : n \in 1..MaxTextLen}
TargetLanguages == {<<>>, <<"French">>}
CustomPrompts ==
  {<<>>, <<" ">>, <<"Translate:", VarInputText>>, <<"Translate", VarFirstLanguage>>,
   <<" ", VarInputText, "to", VarSecondLanguage, VarInputText, " ">>}
Languages == {<<"Chinese">>, <<"English">>}

InitPrompt ==
  /\ InitShared
  /\ norm = NormIdle
  /\ \E txt \in PromptTexts, targetLanguage \in TargetLanguages,
        prompt \in CustomPrompts, firstLanguage, secondLanguage \in Languages :
       pr = [PrIdle EXCEPT !.stage = "input", !.text = txt,
                           !.targetLanguage = targetLanguage, !.prompt = prompt,
                           !.firstLanguage = firstLanguage,
                           !.secondLanguage = secondLanguage]

\* generateTranslatePrompt(text, targetLanguage)
GeneratePrompt ==
  /\ pr.stage = "input"
  /\ Commit([W EXCEPT !.pr.stage = "built",
                      !.pr.finalPrompt =
                         generateTranslatePrompt(pr.text, pr.targetLanguage, pr.prompt,
                                                 pr.firstLanguage, pr.secondLanguage)])

NextPrompt == GeneratePrompt

SpecPrompt == InitPrompt /\ [][NextPrompt]_vars

\* t has s as a contiguous part
Contains(t, s) ==
  \E i \in 0..(Len(t) - Len(s)) : SubSeq(t, i + 1, i + Len(s)) = s

\* the template with each variable replaced by its configured value
RECURSIVE Filled(_, _, _, _)
Filled(template, firstLanguage, secondLanguage, inputText) ==
  IF template = <<>> THEN <<>>
  ELSE (CASE Head(template) = VarFirstLanguage  -> firstLanguage
          [] Head(template) = VarSecondLanguage -> secondLanguage
          [] Head(template) = VarInputText      -> inputText
          [] OTHER                              -> <<Head(template)>>)
       \o Filled(Tail(template), firstLanguage, secondLanguage, inputText)

\* C23: with a target language the prompt is the direct instruction; without,
\* it is the custom template if that is not blank, else the built-in one, with
\* every variable replaced by its configured value; the text to translate is
\* part of the prompt, verbatim, in every case.
C23_PromptHoldsTextVerbatim ==
  pr.stage = "built" =>
    /\ pr.targetLanguage # <<>>
         => pr.finalPrompt = directInstruction(pr.text, pr.targetLanguage)
    /\ pr.targetLanguage = <<>>
         => LET template == IF Trim(pr.prompt) # <<>> THEN Trim(pr.prompt)
                            ELSE DEFAULT_TRANSLATE_PROMPT
                filled == Filled(template, pr.firstLanguage, pr.secondLanguage, pr.text)
            IN  \/ pr.finalPrompt = filled
                \/ /\ ~Includes(template, VarInputText)
                   /\ pr.finalPrompt = filled \o <<LF, LF>> \o pr.text
    /\ Contains(pr.finalPrompt, pr.text)

(***************************************************************************)
(* The Translate command and GeminiClient.generateContentStream            *)
(*                                                                         *)
(* Invocation j of performTranslation makes the j-th call of               *)
(* generateContentStream.  The k-th chunk of that stream has the text      *)
(* <<j, k>>, or no text.  The display buffer (markdown) is a sequence of   *)
(* chunk texts; the failure message is the element <<0, 0>>.  The toasts   *)
(* are taken to be shown (showToast resolves).                             *)
(***************************************************************************)
MaxModelNameLen == 100

ValidModelChars == {"a", "c", "g", "m", "o", "s", "t", "u", "0", "-", "_", "."}

isValidModelName(modelName) ==
  /\ \A i \in 1..Len(modelName) : modelName[i] \in ValidModelChars
  /\ Len(modelName) > 0
  /\ Len(modelName) <= MaxModelNameLen

CustomChoice == <<"c", "u", "s", "t", "o", "m">>
FallbackModel == <<"g", "-", "0">>

getSelectedModel(model, customModel) ==
  IF model = CustomChoice /\ Trim(customModel) # <<>>
  THEN Trim(customModel)
  ELSE IF model # <<>> THEN model ELSE FallbackModel

\* the preferences model and customModel, the command arguments, the texts of
\* the form
ModelChoices == {<<>>, CustomChoice}
CustomModels == {<<" ", "m", "a", " ">>, <<"m", "/", "a">>}
Queries == {<<>>, <<" ">>, <<"a">>}
FormTexts == {<<" ">>, <<"a", " ">>}

FailureMarkdown == <<<<0, 0>>>>

\* the invocation the next call of performTranslation is
FreshInvocation(w) ==
  CHOOSE j \in Invocations :
    w.inv[j].pc = "idle" /\ \A i \in 1..(j - 1) : w.inv[i].pc # "idle"

CanTranslate == \E j \in Invocations : inv[j].pc = "idle"

\* invocation i is between its guards and its finally block
Translating(w, i) == w.inv[i].pc \notin {"idle", "refused", "done"}

\* history: a starts while others are translating
noteOverlap(w, j) ==
  IF \E i \in Invocations \ {j} : Translating(w, i)
  THEN [w EXCEPT !.inv = [i \in Invocations |->
                            IF i = j \/ Translating(w, i)
                            THEN [@[i] EXCEPT !.overlapped = TRUE] ELSE @[i]]]
  ELSE w

performTranslationAnyModel(w, j, txt, targetLanguage) ==
  LET called == [w EXCEPT !.inv[j].text = txt, !.inv[j].target = targetLanguage]
      refused(title) == [called EXCEPT !.inv[j].pc = "refused", !.tr.toast = title]
  IN  IF ~w.tr.geminiClient THEN refused("uninitialized")
      ELSE IF Trim(txt) = <<>> THEN refused("empty")
      ELSE [noteOverlap(called, j)
              EXCEPT !.tr.page = "detail", !.tr.markdown = <<>>,
                     !.tr.isLoading = TRUE, !.tr.toast = "loading",
                     !.inv[j].pc = "loading_toast"]

\* performTranslation(text, targetLanguage) up to its first suspension point:
\* the toast of a refusal, or the loading toast of generateContentStream
performTranslation(w, j, txt, targetLanguage) ==
  LET called == [w EXCEPT !.inv[j].text = txt, !.inv[j].target = targetLanguage]
      refused(title) == [called EXCEPT !.inv[j].pc = "refused", !.tr.toast = title]
  IN  IF ~w.tr.geminiClient THEN refused("uninitialized")
      ELSE IF Trim(txt) = <<>> THEN refused("empty")
      ELSE IF ~isValidModelName(w.tr.selectedModel) THEN refused("model")
      ELSE [noteOverlap(called, j)
              EXCEPT !.tr.page = "detail", !.tr.markdown = <<>>,
                     !.tr.isLoading = TRUE, !.tr.toast = "loading",
                     !.inv[j].pc = "loading_toast"]

\* the command is launched: first render, the two effects; with a client the
\* initialization awaits getSelectedText
Launch(apiKey, model, customModel, query, language) ==
  /\ tr.stage = "unmounted"
  /\ Commit([W EXCEPT !.tr = [TrIdle EXCEPT
                 !.stage = IF apiKey THEN "selecting" ELSE "ready",
                 !.page = "form", !.isLoading = FALSE,
                 !.geminiClient = apiKey,
                 !.selectedModel = getSelectedModel(model, customModel),
                 !.initialQuery = query,
                 !.TranslateLanguage = language]])

\* initializeTranslation: getSelectedText has answered (ok) or failed
SelectedTextSettled(selected, ok) ==
  /\ tr.stage = "selecting"
  /\ LET w == [W EXCEPT !.tr.stage = "ready"]
         textToTranslate == IF ok /\ selected # <<>>
                            THEN tr.initialQuery \o <<LF>> \o selected
                            ELSE tr.initialQuery
     IN  IF tr.initialQuery # <<>>
         THEN /\ CanTranslate
              /\ Commit(performTranslation(
                   [w EXCEPT !.tr.page = "detail", !.tr.isLoading = TRUE],
                   FreshInvocation(w), textToTranslate, tr.TranslateLanguage))
         ELSE Commit(w)

\* Form page: submit
TranslateSubmit(query, targetLanguage) ==
  /\ tr.stage # "unmounted"
  /\ tr.page = "form"
  /\ LET textToTranslate == Trim(query)
         finalTargetLanguage == IF Trim(targetLanguage) # <<>>
                                THEN Trim(targetLanguage)
                                ELSE tr.TranslateLanguage
     IN  IF textToTranslate = <<>>
         THEN Commit([W EXCEPT !.tr.toast = "noinput"])
         ELSE /\ CanTranslate
              /\ Commit(performTranslation(W, FreshInvocation(W), textToTranslate,
                                           finalTargetLanguage))

\* Detail page, not loading: translate again
Retranslate ==
  /\ tr.stage # "unmounted"
  /\ tr.page = "detail"
  /\ ~tr.isLoading
  /\ Commit([W EXCEPT !.tr.page = "form", !.tr.markdown = <<>>])

\* performTranslation: the toast of the refusal is shown; return
RefusalShown(j) ==
  /\ inv[j].pc = "refused"
  /\ Commit([W EXCEPT !.inv[j].pc = "done"])

\* generateContentStream: the loading toast is shown; the request goes out
StreamRequest(j) ==
  /\ inv[j].pc = "loading_toast"
  /\ Commit([W EXCEPT !.inv[j].apiCalls = @ + 1, !.inv[j].pc = "request"])

\* the client returns the stream
StreamOpened(j) ==
  /\ inv[j].pc = "request"
  /\ Commit([W EXCEPT !.inv[j].pc = "streaming"])

streamCaughtRetry(w, j) ==
  [w EXCEPT !.inv[j].notes = @ + 1, !.tr.toast = "failure",
            !.inv[j].pc = "loading_toast"]

\* generateContentStream: catch, handleError up to its toast
streamCaught(w, j) ==
  [w EXCEPT !.inv[j].notes = @ + 1, !.tr.toast = "failure",
            !.inv[j].pc = "failure_toast"]

\* the client throws instead, or the stream throws between two chunks
StreamFails(j) ==
  /\ inv[j].pc \in {"request", "streaming"}
  /\ Commit(streamCaught(W, j))

appendReplaced(markdown, chunkText) == chunkText

\* setMarkdown((prev) => prev + chunk)
appendChunk(markdown, chunkText) == markdown \o chunkText

\* the stream yields a chunk, with a text or without
StreamChunk(j, hasText) ==
  /\ inv[j].pc = "streaming"
  /\ Len(inv[j].arrived) < MaxChunks
  /\ LET chunkText == IF hasText THEN <<<<j, Len(inv[j].arrived) + 1>>>> ELSE <<>>
         w == [W EXCEPT !.inv[j].arrived = Append(@, chunkText)]
     IN  IF chunkText # <<>>
         THEN Commit([w EXCEPT !.inv[j].fullResponse = @ \o chunkText,
                               !.inv[j].callbacks = Append(@, chunkText),
                               !.tr.markdown = appendChunk(@, chunkText)])
         ELSE Commit(w)

\* the stream ends; the success toast
StreamEnds(j) ==
  /\ inv[j].pc = "streaming"
  /\ Commit([W EXCEPT !.inv[j].pc = "success_toast", !.tr.toast = "success"])

\* generateContentStream returns; performTranslation: finally
StreamReturns(j) ==
  /\ inv[j].pc = "success_toast"
  /\ Commit([W EXCEPT !.inv[j].outcome = "returned",
                      !.inv[j].result = inv[j].fullResponse,
                      !.inv[j].pc = "done",
                      !.tr.isLoading = FALSE])

translationFailedQuietly(w, j) ==
  [w EXCEPT !.inv[j].pc = "done", !.tr.isLoading = FALSE]

\* performTranslation: catch and finally
translationFailed(w, j) ==
  [w EXCEPT !.inv[j].pc = "done",
            !.tr.markdown = FailureMarkdown,
            !.tr.isLoading = FALSE]

\* generateContentStream throws the error
StreamThrows(j) ==
  /\ inv[j].pc = "failure_toast"
  /\ Commit(translationFailed([W EXCEPT !.inv[j].outcome = "thrown"], j))

NextTranslate ==
  \/ \E apiKey \in BOOLEAN, model \in ModelChoices, customModel \in CustomModels,
        query \in Queries, language \in TargetLanguages :
       Launch(apiKey, model, customModel, query, language)
  \/ \E selected \in Queries, ok \in BOOLEAN : SelectedTextSettled(selected, ok)
  \/ \E query \in FormTexts, targetLanguage \in TargetLanguages :
       TranslateSubmit(query, targetLanguage)
  \/ Retranslate
  \/ \E j \in Invocations : RefusalShown(j)
  \/ \E j \in Invocations : StreamRequest(j)
  \/ \E j \in Invocations : StreamOpened(j)
  \/ \E j \in Invocations : StreamFails(j)
  \/ \E j \in Invocations, hasText \in BOOLEAN : StreamChunk(j, hasText)
  \/ \E j \in Invocations : StreamEnds(j)
  \/ \E j \in Invocations : StreamReturns(j)
  \/ \E j \in Invocations : StreamThrows(j)

SpecTranslate == Init /\ [][NextTranslate]_vars

\* the texts of the chunks of a stream, one after the other
RECURSIVE Concatenation(_)
Concatenation(chunks) ==
  IF chunks = <<>> THEN <<>> ELSE Head(chunks) \o Concatenation(Tail(chunks))

\* no invocation later than j has been made
Newest(j) == \A i \in Invocations : i > j => inv[i].pc = "idle"

\* C21: a call of generateContentStream sends at most one request; when the
\* request or the stream fails, before the first chunk or after some, it shows
\* one failure notification and throws, and it never sends a second request.
C21_StreamFailsFast ==
  \A j \in Invocations :
    /\ inv[j].apiCalls <= 1
    /\ inv[j].notes <= 1
    /\ inv[j].notes = 1 => inv[j].pc \in {"failure_toast", "done"}
    /\ inv[j].pc = "done" /\ inv[j].notes = 1 => inv[j].outcome = "thrown"
    /\ inv[j].outcome = "thrown" => inv[j].notes = 1 /\ inv[j].apiCalls = 1
    /\ inv[j].outcome = "returned" => inv[j].notes = 0 /\ inv[j].apiCalls = 1

\* a stream that failed after a chunk had been delivered
C21_Witness ==
  \E j \in Invocations :
    /\ inv[j].outcome = "thrown"
    /\ inv[j].callbacks # <<>>
    /\ inv[j].apiCalls = 1
    /\ inv[j].notes = 1

\* C22: an invocation of performTranslation without a client, with a blank
\* text or with an invalid model name sends no request: it shows the toast of
\* the refusal and returns.
C22_RefusedWithoutApiCall ==
  [][\A j \in Invocations :
       (/\ inv'[j].pc # "idle"
        /\ \/ ~tr'.geminiClient
           \/ Trim(inv'[j].text) = <<>>
           \/ ~isValidModelName(tr'.selectedModel))
         => /\ inv'[j].apiCalls = 0
            /\ inv'[j].pc \in {"refused", "done"}
            /\ inv[j].pc = "idle"
                 => tr'.toast \in {"uninitialized", "empty", "model"}]_vars

\* an invocation refused for the model name, with a client and a text
C22_Witness ==
  \E j \in Invocations :
    /\ inv[j].pc = "done"
    /\ inv[j].apiCalls = 0
    /\ tr.geminiClient
    /\ Trim(inv[j].text) # <<>>
    /\ ~isValidModelName(tr.selectedModel)
    /\ tr.toast = "model"

C25_FailureReplacesPane ==
  [][\A j \in Invocations :
       /\ (inv[j].pc = "failure_toast" /\ inv'[j].pc = "done")
            => tr'.markdown = FailureMarkdown /\ ~tr'.isLoading
       /\ (/\ inv'[j].outcome = "thrown" /\ inv'[j].pc = "done"
           /\ ~inv'[j].overlapped
           /\ \A i \in Invocations : i > j => inv'[i].pc = "idle"
           /\ tr'.page = "detail")
            => tr'.markdown = FailureMarkdown /\ ~tr'.isLoading]_vars

\* a translation failed after a chunk had been shown, and the form has been
\* submitted again
C25_Witness ==
  \E j, i \in Invocations :
    /\ i > j
    /\ inv[j].outcome = "thrown"
    /\ inv[j].callbacks # <<>>
    /\ ~inv[j].overlapped
    /\ inv[i].pc = "streaming"
    /\ ~inv[i].overlapped

\* C29: the display buffer holds the output of one invocation only: chunks of
\* one stream, or the failure message.
C29_OneInvocationInPane ==
  \A a, b \in 1..Len(tr.markdown) : tr.markdown[a][1] = tr.markdown[b][1]


(***************************************************************************)
(* EdgeTTSPlayer.realtimeStreamSpeak and the signals sent to players       *)
(*                                                                         *)
(* The realtime player is a local of its call: it is never registered as   *)
(* MsEdgeTTS.currentPlayer, and only its own stream-error handler kills    *)
(* it.                                                                     *)
(***************************************************************************)
\* realtimeStreamSpeak from its start to its first suspension point
realtimeStreamSpeak(w, c) ==
  IF cleanText(w.text[c]) = <<>>
  THEN [w EXCEPT !.pc[c] = "rt_catch", !.err[c] = "empty"]
  ELSE [w EXCEPT !.pc[c] = "rt_setMetadata"]

\* a caller invokes speak(text, "realtime") on a player instance
RealtimeSpeak(c, texts) ==
  /\ pc[c] = "idle"
  /\ c = 1 \/ pc[c - 1] # "idle"
  /\ NoReady
  /\ \E t \in texts :
       Commit(realtimeStreamSpeak([W EXCEPT !.mode[c] = "realtime", !.text[c] = t], c))

\* realtime mode: tts.setMetadata resolved
RtSetMetadataResolve(c) ==
  /\ pc[c] = "rt_setMetadata"
  /\ NoReady
  /\ Commit([W EXCEPT !.pc[c] = "rt_toStream"])

\* realtime mode: tts.toStream resolved; afplay is spawned on the stream
RtToStreamResolve(c, spawns) ==
  /\ pc[c] = "rt_toStream"
  /\ NoReady
  /\ \E ok \in spawns :
       Commit([W EXCEPT !.players[c] = IF ok THEN "alive" ELSE "failed",
                        !.pc[c] = "rt_play"])

\* realtime mode: tts.setMetadata or tts.toStream rejected
RtConnectReject(c) ==
  /\ pc[c] \in {"rt_setMetadata", "rt_toStream"}
  /\ NoReady
  /\ Commit([W EXCEPT !.pc[c] = "rt_catch", !.err[c] = "connect"])

\* realtime mode: the player's close event resolves the playback promise
RtPlayerClose(c) ==
  /\ pc[c] = "rt_play"
  /\ players[c] = "alive"
  /\ NoReady
  /\ Commit([W EXCEPT !.players[c] = "closed", !.pc[c] = "rt_ret"])

\* realtime mode: afplay could not be spawned; the error event rejects
RtPlayerError(c) ==
  /\ pc[c] = "rt_play"
  /\ players[c] = "failed"
  /\ Commit([W EXCEPT !.players[c] = "unspawned", !.pc[c] = "rt_catch",
                      !.err[c] = "io"])

\* the stream-error handler sends the signal sig
streamErrorKills(w, c, sig) ==
  [KillPlayer(w, c, sig) EXCEPT !.pc[c] = "rt_catch", !.err[c] = "io"]

\* realtime mode: the audio stream fails while afplay reads it; the handler
\* calls player.kill() and rejects
RtStreamError(c) ==
  /\ pc[c] = "rt_play"
  /\ players[c] = "alive"
  /\ NoReady
  /\ Commit(streamErrorKills(W, c, DefaultSignal))

\* realtime mode: the catch block rethrows; the promise of speak() settles
\* and the call's locals are gone
RtSettle(c) ==
  /\ pc[c] \in {"rt_ret", "rt_catch"}
  /\ Commit(retire(W, c))

Realtime ==
  \/ \E c \in Calls \ {NCalls} : RealtimeSpeak(c, TextInputs)
  \/ \E c \in Calls : RtSetMetadataResolve(c)
  \/ \E c \in Calls : RtToStreamResolve(c, BOOLEAN)
  \/ \E c \in Calls : RtConnectReject(c)
  \/ \E c \in Calls : RtPlayerClose(c)
  \/ \E c \in Calls : RtPlayerError(c)
  \/ \E c \in Calls : RtStreamError(c)
  \/ \E c \in Calls : RtSettle(c)

\* Callers of the static speak(), of cancelCurrentPlayback() and of realtime
\* playback, with streams that may fail; the last request id is left unused.
NextKill ==
  \/ \E c \in Calls \ {NCalls} : Speak(c, SpokenTexts)
  \/ \E c \in Calls : Resume(c)
  \/ CancelCurrentPlayback
  \/ NativePipeline
  \/ Reliable
  \/ \E c \in Calls : BSetMetadataResolve(c)
  \/ \E c \in Calls : BWriteFinish(c, {TRUE})
  \/ Realtime

SpecKill == Init /\ [][NextKill]_vars

\* C26: every forced termination of an audio player (cancelCurrentPlayback,
\* preemption by a newer speak, the stream-error path of realtime playback)
\* sends SIGKILL: no player is ever sent another signal.
C26_EveryKillIsSigkill ==
  \A c \in Calls : signal[c] \in {"none", "SIGKILL"}

\* a player killed by cancelCurrentPlayback, for comparison: SIGKILL
CancelSendsSigkill ==
  \A c \in Calls : players[c] \in {"killed", "reaped"} /\ mode[c] # "realtime"
                     => signal[c] = "SIGKILL"


(***************************************************************************)
(* The TTS command: superseded invocations                                 *)
(***************************************************************************)
\* performTTS invocation a is awaiting MsEdgeTTS.speak or handling its result
Invoked(a) == pc[a] \notin {"idle", "done"}

\* a newer performTTS invocation than a is still synthesizing or playing
NewerInFlight(a) == \E b \in Calls : b > a /\ Invoked(b)

\* C27: a performTTS invocation that a newer one superseded never sets the
\* page to Success or Error and never shows the completion or failure toast.
C27_SupersededNeverDrivesPage ==
  [][\A a \in Calls :
       hist.sup[a] /\ pc[a] = "returned" => pc'[a] \notin {"ui_done", "ui_error"}]_vars

\* C28: while a newer performTTS invocation is still synthesizing or playing,
\* the completion of an older one that it superseded never resets the playing
\* flag of the UI.
C28_OlderCompletionKeepsPlaying ==
  [][\A a \in Calls :
       /\ hist.sup[a]
       /\ pc[a] \in {"returned", "ui_done", "ui_error"}
       /\ pc'[a] = "done"
       /\ NewerInFlight(a)
       /\ uiIsPlaying
       => uiIsPlaying']_vars


(***************************************************************************)
(* The TTS command: progress after the Retry action                        *)
(*                                                                         *)
(* The user submits the form, goes back to it and retries as they like;    *)
(* connections may fail.  Everything that does not wait for the user is    *)
(* fair: the selected text arrives, connections, writes and players        *)
(* answer, timers fire, continuations run.                                 *)
(***************************************************************************)
\* the steps that do not wait for the user
Machine ==
  \/ Initialize
  \/ RetryTimer
  \/ DebounceElapsed
  \/ \E c \in Calls : ToastShown(c)
  \/ \E c \in Calls : HandleResult(c)
  \/ \E c \in Calls : PerformFinally(c)
  \/ NativePipeline
  \/ \E c \in Calls : SetMetadataReject(c, TRUE)
  \/ \E c \in Calls : WriteFinish(c, {TRUE})

NextRetry ==
  \/ \E t \in SpokenTexts : handleFormSubmit(t)
  \/ BackToForm
  \/ Retry
  \/ Machine

\* nothing is left for the machine to do: the effect has run, no invocation
\* is in flight, no timer of the component is set
MachineIdle ==
  /\ ~initializing
  /\ \A c \in Calls : pc[c] \in {"idle", "done"}
  /\ \A i \in 1..Len(timers) : timers[i][1] # UI

\* weak fairness of Machine, written with its enabling condition, and of the
\* component's two timers
MachineRuns ==
  /\ []<>MachineIdle \/ []<><<Machine>>_vars
  /\ WF_vars(RetryTimer)
  /\ WF_vars(DebounceElapsed)

SpecRetry == Init /\ [][NextRetry]_vars /\ MachineRuns

\* the Retry action has run and its timer has not fired yet
RetryPending ==
  pageState = "loading" /\ \E i \in 1..Len(timers) : timers[i] = <<UI, RetryMs>>

\* C30: after the Retry action of the Error page, initialization runs again:
\* a new playback attempt is made or the page leaves Loading (performTTS
\* itself takes the page to Playing); the page never stays in Loading.
C30_RetryLeavesLoading ==
  RetryPending ~> (pageState # "loading")


(***************************************************************************)
(* The TTS command: the page after an invocation has settled               *)
(***************************************************************************)
\* performTTS invocation a settles in this step and leaves none in flight
LastSettles(a) ==
  /\ pc[a] \in {"returned", "ui_done", "ui_error"}
  /\ pc'[a] = "done"
  /\ \A b \in Calls : pc'[b] \in {"idle", "done"}

\* C31: when a performTTS invocation that was not dropped settles and no
\* newer invocation is in flight, the page is Success or Error (or the form
\* the user went back to): it is not left in Playing or Loading with nothing
\* playing.
C31_SettledPageIsFinal ==
  [][\A a \in Calls : LastSettles(a) => pageState' \notin {"playing", "loading"}]_vars


(***************************************************************************)
(* The Translate command: the loading indicator                            *)
(***************************************************************************)
\* performTranslation invocation j returns in this step while no other
\* invocation is running
ReturnsAlone(j) ==
  /\ inv[j].pc # "done"
  /\ inv'[j].pc = "done"
  /\ \A i \in Invocations \ {j} : inv'[i].pc \in {"idle", "done"}

\* C32: every performTranslation invocation, those refused by a guard when
\* called from the initialization effect included, ends with the loading
\* indicator cleared.
C32_InvocationEndsNotLoading ==
  [][\A j \in Invocations : ReturnsAlone(j) => ~tr'.isLoading]_vars


(***************************************************************************)
(* MsEdgeTTS: the owner's own steps                                        *)
(***************************************************************************)
\* this step runs code of call c only: no other call moves, except that a
\* writing call may have its write aborted
OwnStep(c) ==
  /\ StepOf(c)
  /\ \A b \in Calls \ {c} : pc'[b] = pc[b] \/ pc'[b] = "write_aborted"

\* C33: between claiming ownership and the finally block of the static
\* speak, the owner's own steps leave activeRequestId alone: it changes only
\* by a later speak() or by a cancelCurrentPlayback() from outside.
C33_OwnerKeepsToken ==
  [][\A c \in Calls :
       OwnStep(c) /\ activeRequestId = c /\ pc'[c] # "returned"
         => activeRequestId' = c]_vars


(***************************************************************************)
(* MsEdgeTTS: the stream lock                                              *)
(***************************************************************************)
\* native call c has taken the stream lock (step 3 of nativeStreamSpeak) and
\* has not reached its finally block
HoldsLock(c) ==
  /\ mode[c] = "native"
  /\ \/ pc[c] \in {"setMetadata", "write", "write_aborted", "play"}
     \/ pc[c] \in {"cas_race", "cas_ret"} /\ casRet[c] = "setActive"

\* as HoldsLock, in the state after the step
HoldsLockNext(c) ==
  /\ mode'[c] = "native"
  /\ \/ pc'[c] \in {"setMetadata", "write", "write_aborted", "play"}
     \/ pc'[c] \in {"cas_race", "cas_ret"} /\ casRet'[c] = "setActive"

\* in this step an older call than c runs the finally block of its
\* nativeStreamSpeak
OlderCleansUp(c) ==
  \E a \in Calls :
    /\ a < c
    /\ pc[a] \in {"setMetadata", "write", "write_aborted", "play"}
    /\ pc'[a] \in {"speak_ret", "speak_catch"}

\* C34: from the step in which a nativeStreamSpeak call takes the stream
\* lock until its own finally block, neither the call's own steps (its
\* cancellation of a previous stream included) nor the late cleanup of an
\* older call release the lock.
C34_LockHeldUntilCleanup ==
  [][\A c \in Calls :
       /\ HoldsLockNext(c)
       /\ HoldsLock(c) => streamLock
       /\ OwnStep(c) \/ (HoldsLock(c) /\ OlderCleansUp(c))
       => streamLock']_vars


(***************************************************************************)
(* MsEdgeTTS: the static state at rest                                     *)
(***************************************************************************)
\* no speak() call and no cancel operation is in flight, no player is alive
AtRest ==
  /\ \A p \in Procs : pc[p] \in {"idle", "done"}
  /\ \A c \in Calls : players[c] # "alive"

\* the static fields have the values they are declared with
ControllerIdle ==
  /\ activeRequestId = 0 /\ activeStreamId = 0 /\ ~streamLock
  /\ ~isPlaying /\ currentPlayer = 0 /\ currentTempFile = 0
  /\ activeEdgeTTS = 0 /\ streamAbortController = 0
  /\ streamCreationPromise = 0

\* C35: whenever no speak() call is in flight and no player process is
\* alive, the shared state of MsEdgeTTS is idle.
C35_IdleAtRest == AtRest => ControllerIdle


(***************************************************************************)
(* MsEdgeTTS: the player fields                                            *)
(***************************************************************************)
\* playAudioFile when spawn() throws instead of returning a process (an
\* error other than EACCES, EAGAIN, EMFILE, ENFILE, ENOENT, which are
\* reported by the error event): the flag is set, no player is registered
playAudioFileThrows(w, c) == [w EXCEPT !.isPlaying = TRUE]

\* the write stream finishes; checkpoint, then playAudioFile, whose spawn
\* throws: the promise rejects and nativeStreamSpeak leaves
WriteFinishSpawnThrows(c) ==
  /\ pc[c] = "write"
  /\ NoReady
  /\ activeStreamId = c
  /\ Commit(nativeExit(playAudioFileThrows(W, c), c, "io"))

\* Any caller, any environment, spawn() failing in either way.
NextSpawn ==
  \/ Next
  \/ \E c \in Calls : WriteFinishSpawnThrows(c)

SpecSpawn == Init /\ [][NextSpawn]_vars

\* C36: at every suspension point isPlaying is true exactly when a player is
\* registered as currentPlayer, and currentTempFile is set exactly when a
\* player is registered, also after a kill of a player that was not running
\* and after a failed spawn.
C36_PlayerFieldsAgree ==
  /\ isPlaying <=> currentPlayer # 0
  /\ currentTempFile # 0 <=> currentPlayer # 0

(***************************************************************************)
(* MsEdgeTTS.speak (static): the result object                             *)
(***************************************************************************)
\* the object returned by the return statement of each kind; a property the
\* object literal does not have is "unset", duration is Date.now() - startTime
TTSResult(kind) ==
  CASE kind = "success"   -> [success |-> TRUE, cancelled |-> "unset",
                              message |-> "done", duration |-> "number"]
    [] kind = "cancelled" -> [success |-> FALSE, cancelled |-> "true",
                              message |-> "cancelled by new request",
                              duration |-> "number"]
    [] kind = "failed"    -> [success |-> FALSE, cancelled |-> "false",
                              message |-> "failed: message",
                              duration |-> "number"]
    [] OTHER              -> [success |-> FALSE, cancelled |-> "unset",
                              message |-> "unset", duration |-> "unset"]

\* the three shapes of a result
IsSuccess(r)   == r.success /\ r.cancelled = "unset"
IsCancelled(r) == ~r.success /\ r.cancelled = "true"
IsFailed(r)    == ~r.success /\ r.cancelled = "false" /\ r.message # "unset"

\* C37: the static speak never rejects: a call that has settled has resolved
\* with a result of exactly one of the shapes success, cancelled and failed,
\* and the result carries a duration.
C37_SpeakResolvesWithResult ==
  \A c \in Calls :
    pc[c] = "returned"
      => /\ res[c] \in {"success", "cancelled", "failed"}
         /\ LET r == TTSResult(res[c])
            IN  /\ Cardinality({k \in {1, 2, 3} :
                                  \/ k = 1 /\ IsSuccess(r)
                                  \/ k = 2 /\ IsCancelled(r)
                                  \/ k = 3 /\ IsFailed(r)}) = 1
                /\ r.duration = "number"

\* C37 witness: a pipeline error that is not a cancellation, in a call that
\* still owns the token, has been caught and returned as a failed result
C37_Witness ==
  \E c \in Calls : pc[c] = "returned" /\ res[c] = "failed" /\ err[c] = "io"


(***************************************************************************)
(* GeminiClient.getAvailableModels and listModels                          *)
(***************************************************************************)
\* a cache check that still serves an entry whose age equals its ttl
cacheIsValidInclusive(m, forceRefresh) ==
  /\ ~forceRefresh
  /\ m.cache # NoEntry
  /\ m.now - m.cache.timestamp <= m.cache.ttl

\* !forceRefresh && modelCache && Date.now() - modelCache.timestamp < ttl
cacheIsValid(m, forceRefresh) ==
  /\ ~forceRefresh
  /\ m.cache # NoEntry
  /\ m.now - m.cache.timestamp < m.cache.ttl

\* getAvailableModels(forceRefresh) up to its return, or up to the await of
\* fetch in listModels; entry and at record what the call saw
getAvailableModels(m, r, forceRefresh) ==
  LET c == [McCallIdle EXCEPT !.force = forceRefresh,
                              !.entry = m.cache,
                              !.at = m.now]
  IN  IF cacheIsValid(m, forceRefresh)
      THEN [m EXCEPT !.call[r] = [c EXCEPT !.pc = "done",
                                           !.ret = m.cache.models]]
      ELSE [m EXCEPT !.call[r] = [c EXCEPT !.pc = "fetch",
                                           !.fetched = TRUE]]

\* a catch block that lets the error out
listModelsCatchRethrow(m, r, why) ==
  [m EXCEPT !.call[r].pc = "rejected", !.call[r].why = why]

\* listModels: the catch block up to the await of the failure toast
listModelsCatch(m, r, why) ==
  [m EXCEPT !.call[r].pc = "toast", !.call[r].why = why]

\* what the body of an OK response can be: an object without a models array,
\* a models array with an entry the conversion throws on, a models array
ResponseShapes == {"no_models", "bad_item", "models"}

GetAvailableModels(r, forceRefresh) ==
  /\ mc.call[r].pc = "idle"
  /\ Commit([W EXCEPT !.mc = getAvailableModels(mc, r, forceRefresh)])

\* fetch rejects: network error
ModelsFetchReject(r) ==
  /\ mc.call[r].pc = "fetch"
  /\ Commit([W EXCEPT !.mc = listModelsCatch(mc, r, "network")])

\* fetch resolves: a response that is not OK is thrown as an HTTP error
ModelsFetchResolve(r, ok) ==
  /\ mc.call[r].pc = "fetch"
  /\ IF ok
     THEN Commit([W EXCEPT !.mc.call[r].pc = "json"])
     ELSE Commit([W EXCEPT !.mc = listModelsCatch(mc, r, "status")])

\* response.json() rejects: the body is not JSON
ModelsJsonReject(r) ==
  /\ mc.call[r].pc = "json"
  /\ Commit([W EXCEPT !.mc = listModelsCatch(mc, r, "json")])

\* response.json() resolves: format check, conversion, cache update, return
ModelsJsonResolve(r, shape, list) ==
  /\ mc.call[r].pc = "json"
  /\ CASE shape = "no_models" ->
            Commit([W EXCEPT !.mc.call[r] = [@ EXCEPT !.pc = "done",
                                                      !.why = "format",
                                                      !.ret = "static"]])
       [] shape = "bad_item" ->
            Commit([W EXCEPT !.mc = listModelsCatch(mc, r, "item")])
       [] OTHER ->
            Commit([W EXCEPT
                      !.mc.cache = [models |-> list, timestamp |-> mc.now,
                                    ttl |-> MODEL_CACHE_TTL],
                      !.mc.call[r] = [@ EXCEPT !.pc = "done", !.ret = list]])

\* the failure toast is up: return STATIC_MODELS
ModelsToastShown(r) ==
  /\ mc.call[r].pc = "toast"
  /\ Commit([W EXCEPT !.mc.call[r] = [@ EXCEPT !.pc = "done",
                                               !.ret = "static"]])

\* time passes
ClockTick ==
  /\ mc.now < MaxTicks * ClockStepMs
  /\ Commit([W EXCEPT !.mc.now = @ + ClockStepMs])

NextModels ==
  \/ \E r \in ModelCalls, forceRefresh \in BOOLEAN :
       GetAvailableModels(r, forceRefresh)
  \/ \E r \in ModelCalls : ModelsFetchReject(r)
  \/ \E r \in ModelCalls, ok \in BOOLEAN : ModelsFetchResolve(r, ok)
  \/ \E r \in ModelCalls : ModelsJsonReject(r)
  \/ \E r \in ModelCalls, shape \in ResponseShapes, list \in FetchedLists :
       ModelsJsonResolve(r, shape, list)
  \/ \E r \in ModelCalls : ModelsToastShown(r)
  \/ ClockTick

SpecModels == Init /\ [][NextModels]_vars

\* C38: getAvailableModels returns the cached list without a fetch exactly
\* when, at the call, an entry exists, its age is below 24 hours and
\* forceRefresh is false; in every other case it fetches.
C38_CacheHitExactlyWhenFresh ==
  \A r \in ModelCalls :
    LET c == mc.call[r]
        fresh == /\ c.entry # NoEntry
                 /\ c.at - c.entry.timestamp < 24 * 60 * 60 * 1000
                 /\ ~c.force
    IN  c.pc # "idle"
          => IF fresh
             THEN ~c.fetched /\ c.pc = "done" /\ c.ret = c.entry.models
             ELSE c.fetched

\* C38 witness: an entry of age 12 hours has been served without a fetch
C38_Witness ==
  \E r \in ModelCalls :
    LET c == mc.call[r]
    IN  /\ c.pc = "done"
        /\ ~c.fetched
        /\ c.entry # NoEntry
        /\ c.at - c.entry.timestamp = ClockStepMs
        /\ c.ret = c.entry.models

\* C39: only the successful end of a fetch writes the cache; a call whose
\* fetch fails (network error, status not OK, body not JSON, body without a
\* usable models array) is never rejected, returns the static list, and none
\* of its steps changes the cache.
C39_CacheWrittenOnlyBySuccess ==
  [][/\ mc'.cache # mc.cache
          => \E r \in ModelCalls :
               /\ mc.call[r].pc = "json"
               /\ mc'.call[r].pc = "done"
               /\ mc'.call[r].why = "none"
               /\ mc'.call[r].ret = mc'.cache.models
               /\ mc'.cache.timestamp = mc.now
     /\ \A r \in ModelCalls :
          /\ mc'.call[r].pc # "rejected"
          /\ mc'.call[r].why # "none" /\ mc'.call[r] # mc.call[r]
               => /\ mc'.cache = mc.cache
                  /\ mc'.call[r].pc = "done" => mc'.call[r].ret = "static"]_vars

\* C39 witness: a forced or expired refresh has failed on the network, the
\* call has returned the static list, and the entry it saw is still cached
C39_Witness ==
  \E r \in ModelCalls :
    LET c == mc.call[r]
    IN  /\ c.pc = "done"
        /\ c.why = "network"
        /\ c.ret = "static"
        /\ c.entry # NoEntry
        /\ mc.cache = c.entry


(***************************************************************************)
(* GeminiClient.generateContent with any number as maxRetries              *)
(***************************************************************************)
\* how far below zero the injected retry counts go
MaxNegative == 1

\* generateContent(prompt, {maxRetries}) with any integer: `||` replaces 0 by
\* the default and keeps a negative number; when the loop condition
\* 1 <= maxRetries fails at once, handleError(lastError) reads the message of
\* null and the call is rejected with that TypeError
GenerateContentInjected(maxRetries) ==
  /\ gen.status = "idle"
  /\ LET n == IF maxRetries = 0 THEN DEFAULT_MAX_RETRIES ELSE maxRetries
         g == [GenIdle EXCEPT !.n = n, !.attempt = 1,
                              !.injected = TRUE, !.opt = maxRetries]
     IN  IF 1 <= n
         THEN Commit([W EXCEPT !.gen = [g EXCEPT !.status = "loading"]])
         ELSE Commit([W EXCEPT !.gen = [g EXCEPT !.status = "type_error"]])

NextInject ==
  \/ NextGen
  \/ \E maxRetries \in (0 - MaxNegative)..MaxRetries :
       GenerateContentInjected(maxRetries)

SpecInject == Init /\ [][NextInject]_vars

\* C40: for every injected maxRetries, 0 and negative numbers included,
\* generateContent makes at most max(maxRetries, 0) requests, and a call that
\* fails throws the error of its last request after one failure toast.
C40_InjectedRetriesBound ==
  gen.injected
    => /\ Len(gen.calls) <= (IF gen.opt > 0 THEN gen.opt ELSE 0)
       /\ gen.status # "type_error"
       /\ gen.status = "thrown"
            => /\ Len(gen.notes) = 1
               /\ gen.calls # <<>>
               /\ gen.lastError = gen.calls[Len(gen.calls)]


====
